---- MODULE Spec2Model ----
(***************************************************************************)
(* A model of awsssolib: the payload builder (utils.get_api_payload,       *)
(* Sso.get_api_payload), the paginated fetcher (Sso._get_paginated_results)*)
(* the facade's collections and lookups, and the association workflows.    *)
(*                                                                         *)
(* The session is an external collaborator (awsauthenticatorlib); it is    *)
(* modelled as a scripted double: `backend` maps an operation name to the  *)
(* pages it serves, the first page for a request without a cursor and page *)
(* k for a request that carries the cursor handed out with page k-1.       *)
(*                                                                         *)
(* Names are taken as bound the way utils.py binds them (copy,             *)
(* UnsupportedTarget, the API_* defaults).  A name that is bound nowhere   *)
(* (`responce`, awsssolib.py line 144) raises NameError when evaluated.    *)
(***************************************************************************)
EXTENDS Integers, Sequences, FiniteSets, TLC

VARIABLES
    backend,   \* the session double's script: operation name -> pages
    posts,     \* the session.post calls of the call or iteration in progress
    gen,       \* the generator object the caller holds
    yielded,   \* the items the generator has handed to the caller
    raised,    \* the exceptions the call or iteration in progress has raised
    result,    \* the outcome of the caller's last call
    heap       \* the mutable objects the caller holds a reference to

vars == <<backend, posts, gen, yielded, raised, result, heap>>

\* ---------------------------------------------------------------- bounds
\* Longest script of pages a list endpoint of the double serves.
MaxPages == 2
\* Most items on one page of the double.
MaxItems == 2

\* ------------------------------------------------------------- constants
SUPPORTED_TARGETS ==
    {"GetUserPoolInfo", "SearchGroups", "ProvisionApplicationInstanceForAWSAccount",
     "ListPermissionSets", "GetApplicationInstanceForAWSAccount",
     "ProvisionApplicationProfileForAWSAccountInstance", "AssociateProfile",
     "ListAWSAccountProfiles", "DisassociateProfile", "SearchUsers",
     "ListMembersInGroup", "ListGroupsForUser", "CreatePermissionSet",
     "PutPermissionsPolicy", "GetPermissionsPolicy",
     "ListAccountsWithProvisionedPermissionSet", "UpdatePermissionSet"}

DEFAULT_AWS_REGION == "eu-west-1"
API_CONTENT_TYPE == "application/json; charset=UTF-8"
API_CONTENT_ENCODING == "amz-1.0"

\* The region and the urls the authenticator hands to the facade.
aws_region == "eu-west-1"
api_url == "https://sso/api"
endpoint_url == api_url \o "/peregrine"

\* ---------------------------------------------------------- Python values
\* None where a string is expected (dict.get without a default).
None == "<None>"

\* Tagged Python values, for what is serialised with json.dumps.
PyNone == [t |-> "none"]
PyStr(s) == [t |-> "str", v |-> s]
PyInt(n) == [t |-> "int", v |-> n]
PyList(xs) == [t |-> "list", v |-> xs]
\* A dict literal: its <<key, value>> pairs in insertion order.
PyDict(pairs) == [t |-> "dict", v |-> pairs]

\* A string that may be None, as a Python value.
PyVal(s) == IF s = None THEN PyNone ELSE PyStr(s)

\* bool(x) of a string that may be None.
Truthy(s) == s # None /\ s # ""

\* bool(x) of a tagged value.
PyTruthy(x) ==
    CASE x.t = "none" -> FALSE
      [] x.t = "str" -> x.v # ""
      [] x.t = "int" -> x.v # 0
      [] OTHER -> Len(x.v) > 0

\* dict.get(key, default) on a mapping (a function of its present keys).
Get(d, k, default) == IF k \in DOMAIN d THEN d[k] ELSE default

EmptyDict == <<>>

RECURSIVE Join(_, _)
Join(strs, sep) ==
    IF Len(strs) = 0 THEN ""
    ELSE IF Len(strs) = 1 THEN strs[1]
    ELSE strs[1] \o sep \o Join(Tail(strs), sep)

\* json.dumps with its default separators.
RECURSIVE json_dumps(_)
json_dumps(x) ==
    CASE x.t = "none" -> "null"
      [] x.t = "str" -> "\"" \o x.v \o "\""
      [] x.t = "int" -> ToString(x.v)
      [] x.t = "list" ->
           "[" \o Join([i \in 1..Len(x.v) |-> json_dumps(x.v[i])], ", ") \o "]"
      [] x.t = "dict" ->
           "{" \o Join([i \in 1..Len(x.v) |->
                          "\"" \o x.v[i][1] \o "\": " \o json_dumps(x.v[i][2])], ", ")
               \o "}"

\* An object handed between caller and library is [value, refs]: what it
\* holds, and the fields of it that are the caller's own objects.
\* The mutant: the payload is returned as it was built.
same_object(o) == o

\* copy.deepcopy: the same value, every mutable field of it a new object.
deepcopy(o) == [value |-> o.value, refs |-> {}]

\* ------------------------------------------------------- payload builder
NoExc == "<no exception>"

\* The mutant: a validation that lets every name through.
validate_any_target(target) == [exc |-> NoExc, value |-> target]

_validate_target(target) ==
    IF target \notin SUPPORTED_TARGETS
    THEN [exc |-> "UnsupportedTarget", value |-> target]
    ELSE [exc |-> NoExc, value |-> target]

Envelope(content_string, target, method, params, path, content_type, content_encoding, x_amz_target, region) ==
    [contentString |-> json_dumps(content_string),
     headers |-> ("Content-Type" :> content_type)
                 @@ ("Content-Encoding" :> content_encoding)
                 @@ ("X-Amz-Target" :> x_amz_target),
     method |-> method,
     operation |-> target,
     params |-> IF PyTruthy(params) THEN params ELSE PyDict(<<>>),
     path |-> path,
     region |-> region]

\* The payload literal as an object: 'params or {}' is the caller's mapping
\* when that is truthy and a new dict otherwise; json.dumps returns a new
\* str and the headers dict is built in place.
payload_literal(content_string, target, method, params, path, content_type, content_encoding, x_amz_target, region) ==
    [value |-> Envelope(content_string, target, method, params, path,
                        content_type, content_encoding, x_amz_target, region),
     refs |-> IF PyTruthy(params) THEN {"params"} ELSE {}]

\* [exc, value, refs]: the exception raised, or the envelope returned and
\* the fields of it that are the caller's own objects.
get_api_payload_full(content_string, target, method, params, path, content_type, content_encoding, x_amz_target, region) ==
    LET Returned(o) == [exc |-> NoExc, value |-> o.value, refs |-> o.refs]
        Built(checked) ==
            IF checked.exc # NoExc
            THEN [exc |-> checked.exc, value |-> EmptyDict, refs |-> {}]
            ELSE Returned(deepcopy(payload_literal(content_string, checked.value, method,
                                                   params, path, content_type,
                                                   content_encoding, x_amz_target, region)))
    IN Built(_validate_target(target))

\* get_api_payload with method, params, content_type and content_encoding
\* left to their defaults, as every caller in the library leaves them.
get_api_payload(content_string, target, path, x_amz_target, region) ==
    get_api_payload_full(content_string, target, "POST", PyNone, path,
                         API_CONTENT_TYPE, API_CONTENT_ENCODING, x_amz_target,
                         region)

\* ------------------------------------------------------ the session double
\* The cursor the double hands out with page k-1: it names page k.
TokenFor(k) == "t" \o ToString(k)

\* Whether a request carries cursor tok: as a key of the envelope, or as the
\* NextToken of its serialised content.
\* The content of a ListAccountsWithProvisionedPermissionSet request
\* (PermissionSet._list_provisioned_accounts_pagination).
provisioned_content(permission_set_id, marker) ==
    IF ~Truthy(marker)
    THEN PyDict(<< <<"permissionSetId", PyVal(permission_set_id)>>,
                   <<"onlyOutOfSync", PyStr("false")>> >>)
    ELSE PyDict(<< <<"permissionSetId", PyVal(permission_set_id)>>,
                   <<"onlyOutOfSync", PyStr("false")>>,
                   <<"marker", PyStr(marker)>> >>)

\* The permission set ids the double knows a marker request by.
MarkedIds == {"ps-1", None}

Carries(payload, tok) ==
    \/ "NextToken" \in DOMAIN payload /\ payload["NextToken"] = tok
    \/ payload.contentString = json_dumps(PyDict(<< <<"NextToken", PyStr(tok)>> >>))
    \/ \E id \in MarkedIds : payload.contentString = json_dumps(provisioned_content(id, tok))

\* The page a request asks for: the one its cursor names, else the first.
PageIndex(pages, payload) ==
    LET Named(named) == IF named = {} THEN 1 ELSE CHOOSE k \in named : TRUE
    IN Named({k \in 2..Len(pages) : Carries(payload, TokenFor(k))})

Respond(payload) ==
    LET Serve(pages) == pages[PageIndex(pages, payload)]
    IN Serve(backend[payload.operation])

\* session.post(url, json=payload): the request is logged with the answer
\* the double gave it.
session_post(ps, url, payload) ==
    LET Logged(response) ==
            [posts |-> Append(ps, [url |-> url, json |-> payload, response |-> response]),
             response |-> response]
    IN Logged(Respond(payload))

\* ------------------------------------------------------------- entities
\* What the service may send in place of an item mapping.
NotADict == [junk |-> "<not a mapping>"]
IsDict(data) == "junk" \notin DOMAIN data

_parse_data(data) == IF ~IsDict(data) THEN EmptyDict ELSE data

\* object_type(sso, data)
Entity(cls, data) == [cls |-> cls, data |-> _parse_data(data)]

\* ------------------------------------------------------ paginated fetcher
NoGen == [state |-> "none"]

\* The generator object _get_paginated_results returns: nothing has run yet.
NewGen(content_payload, path, target, amz_target, region, object_type, object_group) ==
    [state |-> "created", content_payload |-> content_payload, path |-> path,
     target |-> target, amz_target |-> amz_target, region |-> region,
     object_type |-> object_type, object_group |-> object_group,
     url |-> "", payload |-> EmptyDict, items |-> <<>>, next_token |-> None]

Finished(g) == [g EXCEPT !.state = "finished", !.items = <<>>, !.next_token = None]
\* A generator the caller closed or dropped: it runs no further either.
Closed(g) == [g EXCEPT !.state = "closed", !.items = <<>>, !.next_token = None]

Yield(value) == [kind |-> "yield", exc |-> NoExc, text |-> "", value |-> <<value>>]
StopIteration == [kind |-> "stop", exc |-> NoExc, text |-> "", value |-> <<>>]
Raise(exc, text) == [kind |-> "raise", exc |-> exc, text |-> text, value |-> <<>>]

\* The mutant: the cursor is read under a key the service never sends.
partial_response_no_cursor(ps, url, payload) ==
    LET Checked(r) ==
            IF ~r.response.ok
            THEN [posts |-> r.posts, exc |-> "SystemError", text |-> r.response.text,
                  response |-> r.response, next_token |-> None]
            ELSE [posts |-> r.posts, exc |-> NoExc, text |-> "", response |-> r.response,
                  next_token |-> Get(r.response.body, "nextToken", None)]
    IN Checked(session_post(ps, url, payload))

\* The mutant: the cursor is indexed, not looked up with a default.
partial_response_indexed(ps, url, payload) ==
    LET Checked(r) ==
            IF ~r.response.ok
            THEN [posts |-> r.posts, exc |-> "SystemError", text |-> r.response.text,
                  response |-> r.response, next_token |-> None]
            ELSE IF "NextToken" \notin DOMAIN r.response.body
            THEN [posts |-> r.posts, exc |-> "KeyError", text |-> "NextToken",
                  response |-> r.response, next_token |-> None]
            ELSE [posts |-> r.posts, exc |-> NoExc, text |-> "", response |-> r.response,
                  next_token |-> r.response.body["NextToken"]]
    IN Checked(session_post(ps, url, payload))

\* The mutant: a failed response is passed on instead of raised.
partial_response_unchecked(ps, url, payload) ==
    LET Checked(r) ==
            [posts |-> r.posts, exc |-> NoExc, text |-> "", response |-> r.response,
             next_token |-> Get(r.response.body, "NextToken", None)]
    IN Checked(session_post(ps, url, payload))

_get_partial_response(ps, url, payload) ==
    LET Checked(r) ==
            IF ~r.response.ok
            THEN [posts |-> r.posts, exc |-> "SystemError", text |-> r.response.text,
                  response |-> r.response, next_token |-> None]
            ELSE [posts |-> r.posts, exc |-> NoExc, text |-> "", response |-> r.response,
                  next_token |-> Get(r.response.body, "NextToken", None)]
    IN Checked(session_post(ps, url, payload))

\* The mutant: the cursor is serialized into the body of the request.
cursor_in_content(payload, next_token) ==
    [payload EXCEPT !.contentString = json_dumps(PyDict(<< <<"NextToken", PyStr(next_token)>> >>))]

\* payload.update({'NextToken': next_token})
payload_update(payload, next_token) == ("NextToken" :> next_token) @@ payload

\* The two loops of the generator from the head of a `for data in ...`:
\* yield the next item of the page, else follow the cursor, else end.
RECURSIVE Pump(_, _)
Pump(g, ps) ==
    IF Len(g.items) > 0
    THEN [gen |-> [g EXCEPT !.state = "suspended", !.items = Tail(@)],
          posts |-> ps,
          out |-> Yield(Entity(g.object_type, Head(g.items)))]
    ELSE IF Truthy(g.next_token)
    THEN LET Fetched(payload, r) ==
                 IF r.exc # NoExc
                 THEN [gen |-> Finished(g), posts |-> r.posts, out |-> Raise(r.exc, r.text)]
                 ELSE Pump([g EXCEPT !.payload = payload,
                                     !.items = Get(r.response.body, g.object_group, <<>>),
                                     !.next_token = r.next_token], r.posts)
             Updated(payload) == Fetched(payload, _get_partial_response(ps, g.url, payload))
         IN Updated(payload_update(g.payload, g.next_token))
    ELSE [gen |-> Finished(g), posts |-> ps, out |-> StopIteration]

\* Every page behind the one held in g, fetched at once (for the mutant).
RECURSIVE FetchRest(_, _)
FetchRest(g, ps) ==
    IF ~Truthy(g.next_token) THEN [gen |-> g, posts |-> ps]
    ELSE LET Fetched(payload, r) ==
                 IF r.exc # NoExc
                 THEN [gen |-> [g EXCEPT !.next_token = None], posts |-> r.posts]
                 ELSE FetchRest([g EXCEPT !.payload = payload,
                                          !.items = @ \o Get(r.response.body, g.object_group, <<>>),
                                          !.next_token = r.next_token], r.posts)
             Updated(payload) == Fetched(payload, _get_partial_response(ps, g.url, payload))
         IN Updated(payload_update(g.payload, g.next_token))

\* The mutant: an eager fetcher, every page is requested before the first
\* item is handed out.
GenStartEager(g, ps) ==
    LET url == api_url \o "/" \o g.path
        Buffered(all) == Pump(all.gen, all.posts)
        First(p, r) ==
            IF r.exc # NoExc
            THEN [gen |-> Finished(g), posts |-> r.posts, out |-> Raise(r.exc, r.text)]
            ELSE Buffered(FetchRest([g EXCEPT !.url = url, !.payload = p.value,
                                              !.items = Get(r.response.body, g.object_group, <<>>),
                                              !.next_token = r.next_token], r.posts))
        Built(p) ==
            IF p.exc # NoExc
            THEN [gen |-> Finished(g), posts |-> ps, out |-> Raise(p.exc, g.target)]
            ELSE First(p, _get_partial_response(ps, url, p.value))
    IN Built(get_api_payload(g.content_payload, g.target, "/" \o g.path \o "/", g.amz_target, g.region))

\* The generator's body up to its first suspension.
GenStart(g, ps) ==
    LET url == api_url \o "/" \o g.path
        First(p, r) ==
            IF r.exc # NoExc
            THEN [gen |-> Finished(g), posts |-> r.posts, out |-> Raise(r.exc, r.text)]
            ELSE Pump([g EXCEPT !.url = url, !.payload = p.value,
                                !.items = Get(r.response.body, g.object_group, <<>>),
                                !.next_token = r.next_token], r.posts)
        Built(p) ==
            IF p.exc # NoExc
            THEN [gen |-> Finished(g), posts |-> ps, out |-> Raise(p.exc, g.target)]
            ELSE First(p, _get_partial_response(ps, url, p.value))
    IN Built(get_api_payload(g.content_payload, g.target, "/" \o g.path \o "/", g.amz_target, g.region))

\* next(generator)
GenNext(g, ps) ==
    IF g.state = "created" THEN GenStart(g, ps)
    ELSE IF g.state = "suspended" THEN Pump(g, ps)
    ELSE [gen |-> g, posts |-> ps, out |-> StopIteration]

\* ------------------------------------------------------------ the facade
\* Sso.groups: the generator is made, nothing is requested yet.
groups ==
    NewGen(PyDict(<< <<"SearchString", PyStr("*")>>,
                     <<"SearchAttributes", PyList(<<PyStr("GroupName")>>)>>,
                     <<"MaxResults", PyInt(100)>> >>),
           "userpool", "SearchGroups",
           "com.amazonaws.swbup.service.SWBUPService.SearchGroups",
           aws_region, "Group", "Groups")

\* What a call hands back: the requests it made, and its value or exception.
Ok(ps, value) == [posts |-> ps, exc |-> NoExc, text |-> "", value |-> value]
Err(ps, exc, text) == [posts |-> ps, exc |-> exc, text |-> text, value |-> <<>>]

\* Account(sso, data)
Account(data) == [cls |-> "Account", data |-> _parse_data(data), _instance_id |-> None]

\* The name and id accessors of the four entity classes.
Attr(e, attr) ==
    CASE e.cls = "Group" /\ attr = "id" -> Get(e.data, "GroupId", None)
      [] e.cls = "Group" /\ attr = "name" -> Get(e.data, "GroupName", "")
      [] e.cls = "User" /\ attr = "id" -> Get(e.data, "UserId", None)
      [] e.cls = "User" /\ attr = "name" -> Get(e.data, "UserName", None)
      [] e.cls = "Account" /\ attr = "id" -> Get(e.data, "Id", None)
      [] e.cls = "Account" /\ attr = "name" -> Get(e.data, "Name", None)
      [] e.cls = "PermissionSet" /\ attr = "id" -> Get(e.data, "Id", None)
      [] e.cls = "PermissionSet" /\ attr = "name" -> Get(e.data, "Name", None)

\* Sso.sso_directory_id.  The request is posted; the test of its answer
\* reads `responce`, a name bound nowhere, so NameError is raised whatever
\* the answer was and neither return is reached.
sso_directory_id(ps) ==
    LET Answered(r) == Err(r.posts, "NameError", "name 'responce' is not defined")
        Built(payload) == Answered(session_post(ps, api_url \o "/userpool", payload.value))
    IN Built(get_api_payload(PyDict(<<>>), "GetUserPoolInfo", "/userpool/", "com.amazonaws.swbup.service.SWBUPService.GetUserPoolInfo", aws_region))

\* Sso.users: the directory id is resolved at the access, before the
\* generator is made.
users(ps) ==
    LET Resolved(d) ==
            IF d.exc # NoExc THEN d
            ELSE Ok(d.posts,
                    NewGen(PyDict(<< <<"IdentityStoreId", PyVal(d.value)>>, <<"MaxResults", PyInt(25)>> >>),
                           "identitystore", "SearchUsers",
                           "com.amazonaws.identitystore.AWSIdentityStoreService.SearchUsers",
                           aws_region, "User", "Users"))
    IN Resolved(sso_directory_id(ps))

\* The mutant: a page's accounts are put in front of the earlier ones.
prepend_accounts(accounts, account_list) == account_list \o accounts

\* accounts = accounts + account_list
extend_accounts(accounts, account_list) == accounts \o account_list

\* Sso._list_accounts_pagination: the envelope is written out by hand, and
\* the items are read without a default.
_list_accounts_pagination(ps, next_token) ==
    LET content_string == IF ~Truthy(next_token) THEN PyDict(<<>>)
                          ELSE PyDict(<< <<"NextToken", PyStr(next_token)>> >>)
        payload == [contentString |-> json_dumps(content_string),
                    headers |-> ("Content-Type" :> "application/x-amz-json-1.1")
                                @@ ("Content-Encoding" :> "amz-1.0")
                                @@ ("X-Amz-Target" :> "AWSOrganizationsV20161128.ListAccounts")
                                @@ ("X-Amz-User-Agent" :> "aws-sdk-js/2.152.0 promise"),
                    method |-> "POST",
                    operation |-> "listAccounts",
                    params |-> PyDict(<<>>),
                    path |-> "/",
                    region |-> "us-east-1"]
        Answered(r, body) ==
            IF "Accounts" \notin DOMAIN body
            THEN Err(r.posts, "TypeError", "'NoneType' object is not iterable")
            ELSE Ok(r.posts, [accounts |-> [i \in 1..Len(body["Accounts"]) |-> Account(body["Accounts"][i])],
                              next_token |-> Get(body, "NextToken", "")])
        Posted(r) == Answered(r, r.response.body)
    IN Posted(session_post(ps, api_url \o "/organizations", payload))

\* The while loop of Sso.accounts.
RECURSIVE AccountsLoop(_, _, _)
AccountsLoop(accts, next_token, ps) ==
    IF ~Truthy(next_token) THEN Ok(ps, accts)
    ELSE LET Listed(page) ==
                 IF page.exc # NoExc THEN page
                 ELSE AccountsLoop(extend_accounts(accts, page.value.accounts), page.value.next_token, page.posts)
         IN Listed(_list_accounts_pagination(ps, next_token))

\* Sso.accounts
accounts(ps) ==
    LET Listed(first) ==
            IF first.exc # NoExc THEN first
            ELSE AccountsLoop(first.value.accounts, first.value.next_token, first.posts)
    IN Listed(_list_accounts_pagination(ps, None))

\* Sso.permission_sets: one request, its answer read without a default and
\* without a look at its status or cursor.
permission_sets(ps) ==
    LET Answered(r, body) ==
            IF "permissionSets" \notin DOMAIN body
            THEN Err(r.posts, "TypeError", "'NoneType' object is not iterable")
            ELSE Ok(r.posts, [i \in 1..Len(body["permissionSets"]) |-> Entity("PermissionSet", body["permissionSets"][i])])
        Posted(r) == Answered(r, r.response.body)
        Built(payload) == Posted(session_post(ps, endpoint_url, payload.value))
    IN Built(get_api_payload(PyDict(<<>>), "ListPermissionSets", "/control/", "com.amazon.switchboard.service.SWBService.ListPermissionSets", aws_region))

\* The mutant: the last match of a list, not the first.
LastInList(list, attr, wanted) ==
    LET Pick(hits) == IF hits = {} THEN <<>> ELSE <<list[CHOOSE i \in hits : \A j \in hits : j <= i]>>
    IN Pick({i \in 1..Len(list) : Attr(list[i], attr) = wanted})

\* next((x for x in list if x.attr == wanted), None); None is <<>>.
FirstInList(list, attr, wanted) ==
    LET Pick(hits) == IF hits = {} THEN <<>> ELSE <<list[CHOOSE i \in hits : \A j \in hits : i <= j]>>
    IN Pick({i \in 1..Len(list) : Attr(list[i], attr) = wanted})

\* next((x for x in generator if x.attr == wanted), None): the generator is
\* advanced until an item matches, and no further.
RECURSIVE FirstInGen(_, _, _, _)
FirstInGen(g, ps, attr, wanted) ==
    LET Got(r) ==
            IF r.out.kind = "raise" THEN Err(r.posts, r.out.exc, r.out.text)
            ELSE IF r.out.kind = "stop" THEN Ok(r.posts, <<>>)
            ELSE IF Attr(r.out.value[1], attr) = wanted THEN Ok(r.posts, r.out.value)
            ELSE FirstInGen(r.gen, r.posts, attr, wanted)
    IN Got(GenNext(g, ps))

\* get_user_by_name, get_user_by_id
get_user_by(ps, attr, wanted) ==
    LET Scan(u) == IF u.exc # NoExc THEN u ELSE FirstInGen(u.value, u.posts, attr, wanted)
    IN Scan(users(ps))

\* get_group_by_name, get_group_by_id
get_group_by(ps, attr, wanted) == FirstInGen(groups, ps, attr, wanted)

\* get_account_by_name, get_account_by_id
get_account_by(ps, attr, wanted) ==
    LET Scan(a) == IF a.exc # NoExc THEN a ELSE Ok(a.posts, FirstInList(a.value, attr, wanted))
    IN Scan(accounts(ps))

get_permission_set_by_name(ps, wanted) ==
    LET Scan(p) == IF p.exc # NoExc THEN p ELSE Ok(p.posts, FirstInList(p.value, "name", wanted))
    IN Scan(permission_sets(ps))

\* ---- association workflows
\* An attribute read on the None a lookup returned.
AttributeError(ps, attr) ==
    Err(ps, "AttributeError", "'NoneType' object has no attribute '" \o attr \o "'")

\* The mutant: the instance id is resolved at every access.
instance_id_refetched(ps, account) ==
    LET Answered(r) ==
            Ok(r.posts, Get(Get(r.response.body, "applicationInstance", EmptyDict), "instanceId", ""))
        Built(payload) == Answered(session_post(ps, endpoint_url, payload.value))
    IN Built(get_api_payload(PyDict(<< <<"awsAccountId", PyVal(Attr(account, "id"))>> >>), "GetApplicationInstanceForAWSAccount", "/control/", "com.amazon.switchboard.service.SWBService.GetApplicationInstanceForAWSAccount", DEFAULT_AWS_REGION))

\* Account.instance_id: one GetApplicationInstanceForAWSAccount POST unless
\* this Account object answered before.  Every lookup builds its Account
\* objects anew, so the memo never outlives the call that filled it.
instance_id(ps, account) ==
    IF account._instance_id # None THEN Ok(ps, account._instance_id)
    ELSE LET Answered(r) ==
                 Ok(r.posts, Get(Get(r.response.body, "applicationInstance", EmptyDict), "instanceId", ""))
             Built(payload) == Answered(session_post(ps, endpoint_url, payload.value))
         IN Built(get_api_payload(PyDict(<< <<"awsAccountId", PyVal(Attr(account, "id"))>> >>), "GetApplicationInstanceForAWSAccount", "/control/", "com.amazon.switchboard.service.SWBService.GetApplicationInstanceForAWSAccount", DEFAULT_AWS_REGION))

\* Account.associated_profiles: a failed listing is logged and gives [].
associated_profiles(ps, account) ==
    LET Answered(r) ==
            IF ~r.response.ok THEN Ok(r.posts, <<>>)
            ELSE Ok(r.posts, Get(r.response.body, "profileList", <<>>))
        Built(i, payload) == Answered(session_post(i.posts, endpoint_url, payload.value))
        Instance(i) ==
            IF i.exc # NoExc THEN i
            ELSE Built(i, get_api_payload(PyDict(<< <<"instanceId", PyVal(i.value)>> >>), "ListAWSAccountProfiles", "/control/", "com.amazon.switchboard.service.SWBService.ListAWSAccountProfiles", DEFAULT_AWS_REGION))
    IN Instance(instance_id(ps, account))

\* The account of a name and its instance id: get_account_by_name(..).instance_id
account_instance_id(ps, account_name) ==
    LET Found(a) ==
            IF a.exc # NoExc THEN a
            ELSE IF a.value = <<>> THEN AttributeError(a.posts, "instance_id")
            ELSE instance_id(a.posts, a.value[1])
    IN Found(get_account_by(ps, "name", account_name))

\* The mutant: a permission set that does not resolve is provisioned with a
\* null id.
provision_unresolved(ps, permission_set_name, account_name) ==
    LET Answered(r) ==
            Ok(r.posts, Get(Get(r.response.body, "applicationProfile", EmptyDict), "profileId", ""))
        Built(i, payload) == Answered(session_post(i.posts, endpoint_url, payload.value))
        Instance(permission_set_id, i) ==
            IF i.exc # NoExc THEN i
            ELSE Built(i, get_api_payload(PyDict(<< <<"permissionSetId", PyVal(permission_set_id)>>, <<"instanceId", PyVal(i.value)>> >>), "ProvisionApplicationProfileForAWSAccountInstance", "/control/", "com.amazon.switchboard.service.SWBService.ProvisionApplicationProfileForAWSAccountInstance", aws_region))
        Found(p) ==
            IF p.exc # NoExc THEN p
            ELSE IF p.value = <<>> THEN Instance(None, account_instance_id(p.posts, account_name))
            ELSE Instance(Attr(p.value[1], "id"), account_instance_id(p.posts, account_name))
    IN Found(get_permission_set_by_name(ps, permission_set_name))

\* Sso._provision_application_profile_for_aws_account_instance
_provision_application_profile_for_aws_account_instance(ps, permission_set_name, account_name) ==
    LET Answered(r) ==
            Ok(r.posts, Get(Get(r.response.body, "applicationProfile", EmptyDict), "profileId", ""))
        Built(i, payload) == Answered(session_post(i.posts, endpoint_url, payload.value))
        Instance(permission_set_id, i) ==
            IF i.exc # NoExc THEN i
            ELSE Built(i, get_api_payload(PyDict(<< <<"permissionSetId", PyVal(permission_set_id)>>, <<"instanceId", PyVal(i.value)>> >>), "ProvisionApplicationProfileForAWSAccountInstance", "/control/", "com.amazon.switchboard.service.SWBService.ProvisionApplicationProfileForAWSAccountInstance", aws_region))
        Found(p) ==
            IF p.exc # NoExc THEN p
            ELSE IF p.value = <<>> THEN AttributeError(p.posts, "id")
            ELSE Instance(Attr(p.value[1], "id"), account_instance_id(p.posts, account_name))
    IN Found(get_permission_set_by_name(ps, permission_set_name))

\* Sso._get_aws_account_profile_for_permission_set: the first associated
\* profile of that name, or {}.
_get_aws_account_profile_for_permission_set(ps, account_name, permission_set_name) ==
    LET Pick(list, hits) ==
            IF hits = {} THEN EmptyDict ELSE list[CHOOSE i \in hits : \A j \in hits : i <= j]
        Listed(l) ==
            IF l.exc # NoExc THEN l
            ELSE Ok(l.posts, Pick(l.value, {i \in 1..Len(l.value) : Get(l.value[i], "name", None) = permission_set_name}))
        Found(a) ==
            IF a.exc # NoExc THEN a
            ELSE IF a.value = <<>> THEN AttributeError(a.posts, "associated_profiles")
            ELSE Listed(associated_profiles(a.posts, a.value[1]))
    IN Found(get_account_by(ps, "name", account_name))

\* User.first_name and User.last_name: 'UserAttributes' is read without a
\* default.
user_name_part(ps, user, part) ==
    IF "UserAttributes" \notin DOMAIN user.data
    THEN Err(ps, "AttributeError", "'NoneType' object has no attribute 'get'")
    ELSE Ok(ps, Get(Get(Get(Get(user.data["UserAttributes"], "name", EmptyDict), "ComplexValue", EmptyDict), part, EmptyDict), "StringValue", ""))

\* The content of an AssociateProfile/DisassociateProfile request.
profile_content(accessor_id, accessor_type, accessor_display, instance, profile_id, directory_id) ==
    PyDict(<< <<"accessorId", PyVal(accessor_id)>>,
              <<"accessorType", PyStr(accessor_type)>>,
              <<"accessorDisplay", accessor_display>>,
              <<"instanceId", PyVal(instance)>>,
              <<"profileId", PyVal(profile_id)>>,
              <<"directoryType", PyStr("UserPool")>>,
              <<"directoryId", PyVal(directory_id)>> >>)

\* The last step of the four workflows: one POST, and response.ok returned.
post_profile(ps, method, content_string) ==
    LET Answered(r) == Ok(r.posts, r.response.ok)
        Built(payload) == Answered(session_post(ps, endpoint_url, payload.value))
    IN Built(get_api_payload(content_string, method, "/control/", "com.amazon.switchboard.service.SWBService." \o method, aws_region))

\* The group or the user a workflow is about: its id and its display.
group_accessor(ps, group_name) ==
    LET Found(g) ==
            IF g.exc # NoExc THEN g
            ELSE IF g.value = <<>> THEN AttributeError(g.posts, "id")
            ELSE Ok(g.posts, [id |-> Attr(g.value[1], "id"), type |-> "GROUP",
                              display |-> PyDict(<< <<"groupName", PyStr(group_name)>> >>)])
    IN Found(get_group_by(ps, "name", group_name))

user_accessor(ps, user_name) ==
    LET Display(user, first, last) ==
            IF last.exc # NoExc THEN last
            ELSE Ok(last.posts, [id |-> Attr(user, "id"), type |-> "USER",
                                 display |-> PyDict(<< <<"userName", PyStr(user_name)>>,
                                                       <<"firstName", PyStr(first.value)>>,
                                                       <<"last_name", PyStr(last.value)>>,
                                                       <<"windowsUpn", PyStr(user_name)>> >>)])
        First(user, first) ==
            IF first.exc # NoExc THEN first
            ELSE Display(user, first, user_name_part(first.posts, user, "familyName"))
        Found(u) ==
            IF u.exc # NoExc THEN u
            ELSE IF u.value = <<>> THEN AttributeError(u.posts, "id")
            ELSE First(u.value[1], user_name_part(u.posts, u.value[1], "givenName"))
    IN Found(get_user_by(ps, "name", user_name))

\* associate_group_to_account and associate_user_to_account behind the
\* accessor: instance id, provisioning, directory id, AssociateProfile.
associate_accessor(x, account_name, permission_set_name) ==
    LET Directory(i, profile, d) ==
            IF d.exc # NoExc THEN d
            ELSE post_profile(d.posts, "AssociateProfile",
                              profile_content(x.value.id, x.value.type, x.value.display, i.value, profile.value, d.value))
        Profile(i, profile) ==
            IF profile.exc # NoExc THEN profile
            ELSE Directory(i, profile, sso_directory_id(profile.posts))
        Instance(i) ==
            IF i.exc # NoExc THEN i
            ELSE Profile(i, _provision_application_profile_for_aws_account_instance(i.posts, permission_set_name, account_name))
    IN IF x.exc # NoExc THEN x
       ELSE Instance(account_instance_id(x.posts, account_name))

\* disassociate_group_from_account and disassociate_user_from_account
\* behind the accessor: instance id, directory id, profile lookup,
\* DisassociateProfile.
disassociate_accessor(x, account_name, permission_set_name) ==
    LET Profile(i, d, profile) ==
            IF profile.exc # NoExc THEN profile
            ELSE post_profile(profile.posts, "DisassociateProfile",
                              profile_content(x.value.id, x.value.type, x.value.display, i.value, Get(profile.value, "profileId", None), d.value))
        Directory(i, d) ==
            IF d.exc # NoExc THEN d
            ELSE Profile(i, d, _get_aws_account_profile_for_permission_set(d.posts, account_name, permission_set_name))
        Instance(i) ==
            IF i.exc # NoExc THEN i
            ELSE Directory(i, sso_directory_id(i.posts))
    IN IF x.exc # NoExc THEN x
       ELSE Instance(account_instance_id(x.posts, account_name))

associate_group_to_account(ps, group_name, account_name, permission_set_name) ==
    associate_accessor(group_accessor(ps, group_name), account_name, permission_set_name)

disassociate_group_from_account(ps, group_name, account_name, permission_set_name) ==
    disassociate_accessor(group_accessor(ps, group_name), account_name, permission_set_name)

associate_user_to_account(ps, user_name, account_name, permission_set_name) ==
    associate_accessor(user_accessor(ps, user_name), account_name, permission_set_name)

disassociate_user_from_account(ps, user_name, account_name, permission_set_name) ==
    disassociate_accessor(user_accessor(ps, user_name), account_name, permission_set_name)

\* ---- entity accessors that issue requests
\* An entity object: its class, its backing mapping and, for an Account,
\* the memo of instance_id.  `self` is the object a method is called on.
url_of(self) ==
    IF self.cls \in {"Group", "User"} THEN api_url \o "/userpool" ELSE endpoint_url

\* The mutant: a failed request is raised, as the paginated fetcher does.
listed_or_raised(ps, self, content_string, target, x_amz_target, field) ==
    LET Answered(r) ==
            IF ~r.response.ok THEN Err(r.posts, "SystemError", r.response.text)
            ELSE Ok(r.posts, Get(r.response.body, field, <<>>))
        Built(payload) == Answered(session_post(ps, url_of(self), payload.value))
    IN Built(get_api_payload(content_string, target, "/userpool/", x_amz_target, DEFAULT_AWS_REGION))

\* The accessor that answers a failed request with the default it is given.
\* Group.users, User.groups: [] on a failure, the sub-field or [] otherwise.
listed_or_empty(ps, self, content_string, target, x_amz_target, field) ==
    LET Answered(r) ==
            IF ~r.response.ok THEN Ok(r.posts, <<>>)
            ELSE Ok(r.posts, Get(r.response.body, field, <<>>))
        Built(payload) == Answered(session_post(ps, url_of(self), payload.value))
    IN Built(get_api_payload(content_string, target, "/userpool/", x_amz_target, DEFAULT_AWS_REGION))

\* Group.users
Group_users(ps, self) ==
    listed_or_empty(ps, self,
                    PyDict(<< <<"GroupId", PyVal(Attr(self, "id"))>>, <<"MaxResults", PyInt(100)>> >>),
                    "ListMembersInGroup", "com.amazonaws.swbup.service.SWBUPService.ListMembersInGroup", "Members")

\* User.groups
User_groups(ps, self) ==
    listed_or_empty(ps, self,
                    PyDict(<< <<"UserId", PyVal(Attr(self, "id"))>>, <<"MaxResults", PyInt(100)>> >>),
                    "ListGroupsForUser", "com.amazonaws.swbup.service.SWBUPService.ListGroupsForUser", "Groups")

\* PermissionSet.permission_policy: None (<<>>) on a failure, the whole
\* body otherwise.
permission_policy(ps, self) ==
    LET Answered(r) ==
            IF ~r.response.ok THEN Ok(r.posts, <<>>)
            ELSE Ok(r.posts, <<r.response.body>>)
        Built(payload) == Answered(session_post(ps, url_of(self), payload.value))
    IN Built(get_api_payload(PyDict(<< <<"permissionSetId", PyVal(Attr(self, "id"))>> >>), "GetPermissionsPolicy", "/control/", "com.amazon.switchboard.service.SWBService.GetPermissionsPolicy", DEFAULT_AWS_REGION))

\* PermissionSet._list_provisioned_accounts_pagination: a failed request is
\* logged and answered with ([], None).
_list_provisioned_accounts_pagination(ps, self, marker) ==
    LET Answered(r) ==
            IF ~r.response.ok THEN Ok(r.posts, [account_ids |-> <<>>, marker |-> None])
            ELSE Ok(r.posts, [account_ids |-> Get(r.response.body, "accountIds", <<>>),
                              marker |-> Get(r.response.body, "marker", "")])
        Built(payload) == Answered(session_post(ps, url_of(self), payload.value))
    IN Built(get_api_payload(provisioned_content(Attr(self, "id"), marker), "ListAccountsWithProvisionedPermissionSet", "/control/", "com.amazon.switchboard.service.SWBService.ListAccountsWithProvisionedPermissionSet", DEFAULT_AWS_REGION))

\* PermissionSet.provisioned_accounts, the while loop over the markers.
RECURSIVE ProvisionedLoop(_, _, _, _)
ProvisionedLoop(self, account_ids, marker, ps) ==
    IF ~Truthy(marker) THEN Ok(ps, account_ids)
    ELSE LET Paged_(page) ==
                 IF page.exc # NoExc THEN page
                 ELSE ProvisionedLoop(self, account_ids \o page.value.account_ids, page.value.marker, page.posts)
         IN Paged_(_list_provisioned_accounts_pagination(ps, self, marker))

\* PermissionSet.provisioned_accounts, the for loop: every id is looked up
\* with get_account_by_id, and what the lookup returned, None (<<>>)
\* included, is appended.
RECURSIVE ResolveAccounts(_, _, _)
ResolveAccounts(account_ids, account_list, ps) ==
    IF account_ids = <<>> THEN Ok(ps, account_list)
    ELSE LET Looked(a) ==
                 IF a.exc # NoExc THEN a
                 ELSE ResolveAccounts(Tail(account_ids), Append(account_list, a.value), a.posts)
         IN Looked(get_account_by(ps, "id", Head(account_ids)))

\* PermissionSet.provisioned_accounts
provisioned_accounts(ps, self) ==
    LET Ids(l) == IF l.exc # NoExc THEN l ELSE ResolveAccounts(l.value, <<>>, l.posts)
        First(page) ==
            IF page.exc # NoExc THEN page
            ELSE Ids(ProvisionedLoop(self, page.value.account_ids, page.value.marker, page.posts))
    IN First(_list_provisioned_accounts_pagination(ps, self, None))

\* PermissionSet.update and PermissionSet.assign_custom_policy_to_permission_set:
\* one POST, a failure is logged, response.ok is returned.
post_for_ok(ps, self, content_string, target) ==
    LET Answered(r) == Ok(r.posts, r.response.ok)
        Built(payload) == Answered(session_post(ps, url_of(self), payload.value))
    IN Built(get_api_payload(content_string, target, "/control/", "com.amazon.switchboard.service.SWBService." \o target, DEFAULT_AWS_REGION))

\* The mutant: update sends its arguments as they are, defaults included.
update_sending_arguments(ps, self, description, relay_state, ttl) ==
    post_for_ok(ps, self,
                PyDict(<< <<"permissionSetId", PyVal(Attr(self, "id"))>>,
                          <<"description", PyVal(description)>>,
                          <<"ttl", PyVal(ttl)>>,
                          <<"relayState", PyVal(relay_state)>> >>),
                "UpdatePermissionSet")

\* PermissionSet.update: an argument left at its default is read from the
\* backing mapping; nothing is written back.
update(ps, self, description, relay_state, ttl) ==
    post_for_ok(ps, self,
                PyDict(<< <<"permissionSetId", PyVal(Attr(self, "id"))>>,
                          <<"description", PyVal(IF description # " " THEN description ELSE Get(self.data, "Description", None))>>,
                          <<"ttl", PyVal(IF Truthy(ttl) THEN ttl ELSE Get(self.data, "ttl", None))>>,
                          <<"relayState", PyVal(IF Truthy(relay_state) THEN relay_state ELSE Get(self.data, "relayState", None))>> >>),
                "UpdatePermissionSet")

\* The mutant: update keeps the new description in the backing mapping.
updated_in_place(self, description, relay_state, ttl) ==
    [self EXCEPT !.data = ("Description" :> description) @@ @]

\* The PermissionSet object after update: the method assigns to no
\* attribute of self.
updated(self, description, relay_state, ttl) == self

\* PermissionSet.assign_custom_policy_to_permission_set; the documents of
\* the model serialise without a character json.dumps would escape.
assign_custom_policy_to_permission_set(ps, self, policy_document) ==
    post_for_ok(ps, self,
                PyDict(<< <<"permissionSetId", PyVal(Attr(self, "id"))>>,
                          <<"policyDocument", PyStr(json_dumps(policy_document))>> >>),
                "PutPermissionsPolicy")

\* ---- entity accessors that read the backing mapping
\* dict.get on what an earlier get without a default returned: None has no
\* get.
NoneHasNoGet(ps) == Err(ps, "AttributeError", "'NoneType' object has no attribute 'get'")

\* The accessors of each class that read a field.
Accessors(cls) ==
    CASE cls = "Group" -> {"id", "name", "description"}
      [] cls = "Account" -> {"name", "email", "id", "arn", "status"}
      [] cls = "User" -> {"status", "created_at", "updated_at", "emails", "first_name",
                          "last_name", "id", "name", "display_name"}
      [] cls = "PermissionSet" -> {"description", "id", "name", "ttl", "creation_date", "relay_state"}

\* self.<accessor> for an accessor that reads a field.
read_field(ps, self, accessor) ==
    CASE self.cls = "Group" /\ accessor = "description" -> Ok(ps, Get(self.data, "Description", ""))
      [] self.cls = "Account" /\ accessor = "email" -> Ok(ps, Get(self.data, "Email", None))
      [] self.cls = "Account" /\ accessor = "arn" -> Ok(ps, Get(self.data, "Arn", None))
      [] self.cls = "Account" /\ accessor = "status" -> Ok(ps, Get(self.data, "Status", None))
      [] self.cls = "User" /\ accessor = "status" -> Ok(ps, Get(self.data, "Active", None))
      [] self.cls = "User" /\ accessor = "created_at" -> Ok(ps, Get(Get(self.data, "Meta", EmptyDict), "CreatedAt", None))
      [] self.cls = "User" /\ accessor = "updated_at" -> Ok(ps, Get(Get(self.data, "Meta", EmptyDict), "UpdatedAt", None))
      [] self.cls = "User" /\ accessor = "emails" ->
            IF "UserAttributes" \notin DOMAIN self.data THEN NoneHasNoGet(ps)
            ELSE Ok(ps, Get(Get(self.data["UserAttributes"], "emails", EmptyDict), "ComplexListValue", ""))
      [] self.cls = "User" /\ accessor = "first_name" -> user_name_part(ps, self, "givenName")
      [] self.cls = "User" /\ accessor = "last_name" -> user_name_part(ps, self, "familyName")
      [] self.cls = "User" /\ accessor = "display_name" ->
            Ok(ps, Get(Get(Get(self.data, "UserAttributes", EmptyDict), "displayName", EmptyDict), "StringValue", None))
      [] self.cls = "PermissionSet" /\ accessor = "description" -> Ok(ps, Get(self.data, "Description", None))
      [] self.cls = "PermissionSet" /\ accessor = "ttl" -> Ok(ps, Get(self.data, "ttl", None))
      [] self.cls = "PermissionSet" /\ accessor = "creation_date" -> Ok(ps, Get(self.data, "CreationDate", None))
      [] self.cls = "PermissionSet" /\ accessor = "relay_state" -> Ok(ps, Get(self.data, "relayState", None))
      [] accessor \in {"id", "name"} -> Ok(ps, Attr(self, accessor))

\* ------------------------------------------------- scripts of the double
OkResp(body) == [ok |-> TRUE, text |-> "", body |-> body]
ErrResp(text) == [ok |-> FALSE, text |-> text, body |-> EmptyDict]
ErrorTexts == {"throttled", "denied"}

Operations == SUPPORTED_TARGETS \cup {"listAccounts"}
DefaultBackend == [op \in Operations |-> <<OkResp(EmptyDict)>>]

ItemLists(S) == UNION {[1..n -> S] : n \in 0..MaxItems}
\* The items part of a page body: the field absent, or a list under it.
ItemParts(field, S) == {EmptyDict} \cup {field :> l : l \in ItemLists(S)}

\* A page that hands out the cursor of the page behind it.
Continuing(k, field, S) ==
    {OkResp(items @@ ("NextToken" :> TokenFor(k + 1))) : items \in ItemParts(field, S)}
\* A page that ends a listing: no cursor, an empty one, or a failure.
Terminal(field, S) ==
    {OkResp(items @@ cursor) : items \in ItemParts(field, S),
                               cursor \in {EmptyDict, "NextToken" :> ""}}
    \cup {ErrResp(e) : e \in ErrorTexts}

RECURSIVE ScriptsFrom(_, _, _, _)
ScriptsFrom(k, n, field, S) ==
    IF k = n THEN {<<p>> : p \in Terminal(field, S)}
    ELSE {<<c>> \o rest : c \in Continuing(k, field, S),
                          rest \in ScriptsFrom(k + 1, n, field, S)}

Scripts(field, S) == UNION {ScriptsFrom(1, n, field, S) : n \in 1..MaxPages}

\* Two items that share a name, or two that share none.
GroupItems == {[GroupId |-> "g1", GroupName |-> "a"], [GroupId |-> "g2", GroupName |-> "a"]}
GroupItemsB == {[GroupId |-> "g1", GroupName |-> "a"], [GroupId |-> "g2", GroupName |-> "b"]}
AccountItems == {[Id |-> "1", Name |-> "a"], [Id |-> "2", Name |-> "a"]}
AccountItemsB == {[Id |-> "1", Name |-> "a"], [Id |-> "2", Name |-> "b"]}
PermissionSetItems == {[Id |-> "ps-1", Name |-> "a"], [Id |-> "ps-2", Name |-> "a"]}
PermissionSetItemsB == {[Id |-> "ps-1", Name |-> "a"], [Id |-> "ps-2", Name |-> "b"]}

\* ------------------------------------------------------------ the caller
NoResult == [op |-> "", args |-> <<>>, kind |-> "none", exc |-> NoExc, text |-> "", value |-> <<>>]
Outcome(op, args, out) == [op |-> op, args |-> args] @@ out
Return(value) == [kind |-> "return", exc |-> NoExc, text |-> "", value |-> <<value>>]

\* The caller holds no object yet.
NoHeap == <<>>

Fresh ==
    /\ posts = <<>>
    /\ gen = NoGen
    /\ yielded = <<>>
    /\ raised = <<>>
    /\ result = NoResult
    /\ heap = NoHeap

\* ---- the payload builder on its own
TargetNames == SUPPORTED_TARGETS \cup {"listAccounts", "DeleteEverything", ""}
Contents == {PyDict(<<>>), PyDict(<< <<"permissionSetId", PyNone>>, <<"MaxResults", PyInt(25)>> >>)}
ParamValues == {PyNone, PyDict(<<>>), PyDict(<< <<"q", PyStr("x")>> >>)}
Paths == {"/control/"}

PayloadInit == backend = DefaultBackend /\ Fresh

\* What the caller holds after a call that returned: the two mappings it
\* passed, the envelope it got (first), and the envelope of a second call
\* with the same arguments once it made one (<<>> before that).
Holding(content, params, p) ==
    [content |-> content, params |-> params,
     first |-> p.value, firstRefs |-> p.refs, touched |-> FALSE,
     second |-> <<>>, secondRefs |-> {}]

CallGetApiPayload ==
    /\ result = NoResult
    /\ \E target \in TargetNames, content \in Contents, params \in ParamValues, path \in Paths :
        LET p == get_api_payload_full(content, target, "POST", params, path, API_CONTENT_TYPE, API_CONTENT_ENCODING, "", DEFAULT_AWS_REGION)
        IN /\ result' = Outcome("get_api_payload",
                                [content_string |-> content, target |-> target, params |-> params, path |-> path],
                                IF p.exc # NoExc THEN Raise(p.exc, target) ELSE Return(p.value))
           /\ raised' = IF p.exc # NoExc THEN <<[exc |-> p.exc, text |-> target]>> ELSE <<>>
           /\ heap' = IF p.exc # NoExc THEN NoHeap ELSE Holding(content, params, p)
           /\ UNCHANGED <<backend, posts, gen, yielded>>

\* The same call once more, the arguments as they were at the first call.
Again(p) ==
    /\ p.exc = NoExc
    /\ heap' = [heap EXCEPT !.second = <<p.value>>, !.secondRefs = p.refs]
    /\ UNCHANGED <<backend, posts, gen, yielded, raised, result>>

Holds == result.op = "get_api_payload" /\ result.kind = "return"

CallAgain ==
    /\ Holds
    /\ heap.second = <<>>
    /\ heap.content = result.args.content_string
    /\ heap.params = result.args.params
    /\ Again(get_api_payload_full(heap.content, result.args.target, "POST", heap.params, result.args.path, API_CONTENT_TYPE, API_CONTENT_ENCODING, "", DEFAULT_AWS_REGION))

\* d[key] = value on a Python dict.
HasKey(d, key) == d.t = "dict" /\ \E i \in 1..Len(d.v) : d.v[i][1] = key
SetItem(d, key, value) == PyDict(Append(d.v, <<key, value>>))
LateKey == "late"
LateValue == PyStr("x")

\* The envelope after a write to the object one of its fields may be.
Seen(envelopes, refs, field, written) ==
    IF field \in refs
    THEN [i \in DOMAIN envelopes |-> [envelopes[i] EXCEPT ![field] = written]]
    ELSE envelopes

\* The caller writes to the mapping it passed as content_string.
MutateContent ==
    /\ Holds
    /\ ~HasKey(heap.content, LateKey)
    /\ heap' = [heap EXCEPT !.content = SetItem(@, LateKey, LateValue)]
    /\ UNCHANGED <<backend, posts, gen, yielded, raised, result>>

\* The caller writes to the mapping it passed as params.
WriteParams(written) ==
    /\ heap' = [heap EXCEPT !.params = written,
                            !.first = Seen(<<@>>, heap.firstRefs, "params", written)[1],
                            !.second = Seen(@, heap.secondRefs, "params", written)]
    /\ UNCHANGED <<backend, posts, gen, yielded, raised, result>>

MutateParams ==
    /\ Holds
    /\ heap.params.t = "dict"
    /\ ~HasKey(heap.params, LateKey)
    /\ WriteParams(SetItem(heap.params, LateKey, LateValue))

\* The caller writes to the params mapping of the first envelope.
WriteEnvelope(written) ==
    /\ heap' = IF "params" \in heap.firstRefs
               THEN [heap EXCEPT !.params = written,
                                 !.first = [@ EXCEPT !.params = written],
                                 !.second = Seen(@, heap.secondRefs, "params", written),
                                 !.touched = TRUE]
               ELSE [heap EXCEPT !.first = [@ EXCEPT !.params = written],
                                 !.touched = TRUE]
    /\ UNCHANGED <<backend, posts, gen, yielded, raised, result>>

MutateEnvelope ==
    /\ Holds
    /\ ~heap.touched
    /\ ~HasKey(heap.first.params, "mine")
    /\ WriteEnvelope(SetItem(heap.first.params, "mine", LateValue))

PayloadNext ==
    \/ CallGetApiPayload
    \/ CallAgain
    \/ MutateContent
    \/ MutateParams
    \/ MutateEnvelope
SpecPayload == PayloadInit /\ [][PayloadNext]_vars

\* ---- a caller that iterates Sso.groups
FetchInit ==
    /\ backend \in {[DefaultBackend EXCEPT !["SearchGroups"] = s] : s \in Scripts("Groups", GroupItems)}
    /\ Fresh

AccessGroups ==
    /\ gen.state = "none"
    /\ gen' = groups
    /\ result' = Outcome("groups", <<>>, Return("generator"))
    /\ UNCHANGED <<backend, posts, yielded, raised, heap>>

\* next(iterator)
\* What one next() leaves behind: the frame, the requests, the item or the
\* exception.
Resumed(r) ==
    /\ gen' = r.gen
    /\ posts' = r.posts
    /\ yielded' = IF r.out.kind = "yield" THEN yielded \o r.out.value ELSE yielded
    /\ raised' = IF r.out.kind = "raise"
                 THEN Append(raised, [exc |-> r.out.exc, text |-> r.out.text])
                 ELSE raised
    /\ result' = Outcome("next", <<>>, r.out)
    /\ UNCHANGED <<backend, heap>>

NextItem ==
    /\ gen.state \in {"created", "suspended", "finished", "closed"}
    /\ Resumed(GenNext(gen, posts))

\* The caller stops consuming: iterator.close(), or the iterator is dropped.
StopConsuming ==
    /\ gen.state \in {"created", "suspended"}
    /\ gen' = Closed(gen)
    /\ result' = Outcome("close", <<>>, Return("None"))
    /\ UNCHANGED <<backend, posts, yielded, raised, heap>>

FetchNext == AccessGroups \/ NextItem \/ StopConsuming
SpecFetch == FetchInit /\ [][FetchNext]_vars

\* ---- a caller of the collections and the lookups
\* The facade keeps nothing between calls and the double answers by the
\* request alone, so a behaviour is one call on a fresh facade.
Idle == result.kind = "none"

\* The outcome of an atomic call, as the caller sees it.
Done(op, args, r) ==
    /\ Idle
    /\ posts' = r.posts
    /\ raised' = IF r.exc # NoExc THEN <<[exc |-> r.exc, text |-> r.text]>> ELSE <<>>
    /\ result' = Outcome(op, args, IF r.exc # NoExc THEN Raise(r.exc, r.text) ELSE Return(r.value))
    /\ UNCHANGED <<backend, gen, yielded, heap>>

\* ListPermissionSets answers: a list, no list, or a failure without one.
PermissionSetAnswers(S) ==
    {<<OkResp(items)>> : items \in ItemParts("permissionSets", S)}
    \cup {<<ErrResp(e)>> : e \in ErrorTexts}

LookupInit ==
    /\ backend \in
         {[DefaultBackend EXCEPT !["SearchGroups"] = s] : s \in Scripts("Groups", GroupItems)}
         \cup {[DefaultBackend EXCEPT !["listAccounts"] = s] : s \in Scripts("Accounts", AccountItems)}
         \cup {[DefaultBackend EXCEPT !["ListPermissionSets"] = s] : s \in PermissionSetAnswers(PermissionSetItems)}
         \cup {[DefaultBackend EXCEPT !["SearchUsers"] = <<OkResp("Users" :> <<[UserId |-> "u1", UserName |-> "a"]>>)>>,
                                       !["GetUserPoolInfo"] = <<u>>] : u \in {OkResp("DirectoryId" :> "d-1"), ErrResp("denied")}}
    /\ Fresh

LookupNames == {"a", "b"}
LookupIds == {"1", "2", "g2", "u1", "zz"}

AccessAccounts == Done("accounts", <<>>, accounts(<<>>))
AccessPermissionSets == Done("permission_sets", <<>>, permission_sets(<<>>))
GetUserByName == \E n \in LookupNames : Done("get_user_by_name", [attr |-> "name", wanted |-> n], get_user_by(<<>>, "name", n))
GetUserById == \E i \in LookupIds : Done("get_user_by_id", [attr |-> "id", wanted |-> i], get_user_by(<<>>, "id", i))
GetGroupByName == \E n \in LookupNames : Done("get_group_by_name", [attr |-> "name", wanted |-> n], get_group_by(<<>>, "name", n))
GetGroupById == \E i \in LookupIds : Done("get_group_by_id", [attr |-> "id", wanted |-> i], get_group_by(<<>>, "id", i))
GetAccountByName == \E n \in LookupNames : Done("get_account_by_name", [attr |-> "name", wanted |-> n], get_account_by(<<>>, "name", n))
GetAccountById == \E i \in LookupIds : Done("get_account_by_id", [attr |-> "id", wanted |-> i], get_account_by(<<>>, "id", i))
GetPermissionSetByName == \E n \in LookupNames : Done("get_permission_set_by_name", [attr |-> "name", wanted |-> n], get_permission_set_by_name(<<>>, n))

LookupNext ==
    \/ AccessAccounts
    \/ AccessPermissionSets
    \/ GetUserByName
    \/ GetUserById
    \/ GetGroupByName
    \/ GetGroupById
    \/ GetAccountByName
    \/ GetAccountById
    \/ GetPermissionSetByName
SpecLookup == LookupInit /\ [][LookupNext]_vars

\* ---- a caller of the association workflows
\* One group, one user, one account and one permission set are served; what
\* varies is how the steps of a workflow are answered.
AssocGroup == [GroupId |-> "g-1", GroupName |-> "grp"]
AssocUser ==
    [UserId |-> "u-1", UserName |-> "usr",
     UserAttributes |-> [name |-> [ComplexValue |-> [givenName |-> [StringValue |-> "U"],
                                                     familyName |-> [StringValue |-> "Sr"]]]]]
AssocAccount == [Id |-> "1", Name |-> "acc"]
AssocPermissionSet == [Id |-> "ps-1", Name |-> "admin"]

InstanceAnswers == {OkResp("applicationInstance" :> [instanceId |-> "ins-1"]), OkResp(EmptyDict)}
ProvisionAnswers == {OkResp("applicationProfile" :> [profileId |-> "p-1"]), OkResp(EmptyDict), ErrResp("denied")}
ProfileListAnswers == {OkResp("profileList" :> <<[name |-> "admin", profileId |-> "p-1"]>>), OkResp(EmptyDict), ErrResp("denied")}
DirectoryAnswers == {OkResp("DirectoryId" :> "d-1"), ErrResp("denied")}
FinalAnswers == {OkResp(EmptyDict), ErrResp("denied")}

AssocInit ==
    /\ \E i \in InstanceAnswers, p \in ProvisionAnswers, l \in ProfileListAnswers,
          d \in DirectoryAnswers, a \in FinalAnswers, x \in FinalAnswers :
          backend = [DefaultBackend EXCEPT
                        !["SearchGroups"] = <<OkResp("Groups" :> <<AssocGroup>>)>>,
                        !["SearchUsers"] = <<OkResp("Users" :> <<AssocUser>>)>>,
                        !["listAccounts"] = <<OkResp("Accounts" :> <<AssocAccount>>)>>,
                        !["ListPermissionSets"] = <<OkResp("permissionSets" :> <<AssocPermissionSet>>)>>,
                        !["GetApplicationInstanceForAWSAccount"] = <<i>>,
                        !["ProvisionApplicationProfileForAWSAccountInstance"] = <<p>>,
                        !["ListAWSAccountProfiles"] = <<l>>,
                        !["GetUserPoolInfo"] = <<d>>,
                        !["AssociateProfile"] = <<a>>,
                        !["DisassociateProfile"] = <<x>>]
    /\ Fresh

GroupNames == {"grp", "nogrp"}
UserNames == {"usr", "nousr"}
AccountNames == {"acc", "noacc"}
PermissionSetNames == {"admin", "noset"}

AssociateGroupToAccount ==
    \E g \in GroupNames, a \in AccountNames, s \in PermissionSetNames :
        Done("associate_group_to_account", [name |-> g, account_name |-> a, permission_set_name |-> s], associate_group_to_account(<<>>, g, a, s))
DisassociateGroupFromAccount ==
    \E g \in GroupNames, a \in AccountNames, s \in PermissionSetNames :
        Done("disassociate_group_from_account", [name |-> g, account_name |-> a, permission_set_name |-> s], disassociate_group_from_account(<<>>, g, a, s))
AssociateUserToAccount ==
    \E u \in UserNames, a \in AccountNames, s \in PermissionSetNames :
        Done("associate_user_to_account", [name |-> u, account_name |-> a, permission_set_name |-> s], associate_user_to_account(<<>>, u, a, s))
DisassociateUserFromAccount ==
    \E u \in UserNames, a \in AccountNames, s \in PermissionSetNames :
        Done("disassociate_user_from_account", [name |-> u, account_name |-> a, permission_set_name |-> s], disassociate_user_from_account(<<>>, u, a, s))

AccessSsoDirectoryId == Done("sso_directory_id", <<>>, sso_directory_id(<<>>))

AssocNext ==
    \/ AccessSsoDirectoryId
    \/ AssociateGroupToAccount
    \/ DisassociateGroupFromAccount
    \/ AssociateUserToAccount
    \/ DisassociateUserFromAccount
SpecAssoc == AssocInit /\ [][AssocNext]_vars

\* ---- a caller that holds one entity
\* The caller keeps a reference to one entity object and calls its
\* accessors and methods, and the facade, in any order.
EntityBackend ==
    [DefaultBackend EXCEPT
        !["SearchGroups"] = <<OkResp("Groups" :> <<AssocGroup>>)>>,
        !["SearchUsers"] = <<OkResp("Users" :> <<AssocUser>>)>>,
        !["listAccounts"] = <<OkResp("Accounts" :> <<AssocAccount>>)>>,
        !["ListPermissionSets"] = <<OkResp("permissionSets" :> <<AssocPermissionSet>>)>>,
        !["GetApplicationInstanceForAWSAccount"] = <<OkResp("applicationInstance" :> [instanceId |-> "ins-1"])>>,
        !["ProvisionApplicationProfileForAWSAccountInstance"] = <<OkResp("applicationProfile" :> [profileId |-> "p-1"])>>]

HeldPermissionSet == [Id |-> "ps-1", Name |-> "admin", Description |-> "all", ttl |-> "PT1H", relayState |-> "https://r"]
GroupObjects == {Entity("Group", AssocGroup), Entity("Group", NotADict)}
UserObjects == {Entity("User", AssocUser), Entity("User", [UserId |-> "u-1", UserName |-> "usr"]), Entity("User", NotADict)}
AccountObjects == {Account(AssocAccount), Account(NotADict)}
PermissionSetObjects == {Entity("PermissionSet", HeldPermissionSet), Entity("PermissionSet", [Id |-> "ps-1"]), Entity("PermissionSet", NotADict)}

MemberAnswers == {OkResp("Members" :> <<[UserId |-> "u-1"]>>), OkResp(EmptyDict), ErrResp("denied")}
GroupsForUserAnswers == {OkResp("Groups" :> <<[GroupId |-> "g-1"]>>), OkResp(EmptyDict), ErrResp("denied")}
PolicyAnswers == {OkResp("policy" :> "{}"), OkResp(EmptyDict), ErrResp("denied")}

\* The pages of ListAccountsWithProvisionedPermissionSet: account ids under
\* 'accountIds', the cursor under 'marker'.
\* The 'accountIds' part of a page: absent, empty, or ids of which the
\* listing of accounts knows the first.
ProvisionedParts ==
    {EmptyDict} \cup {"accountIds" :> l : l \in {<<>>, <<"1">>, <<"9">>, <<"1", "9">>}}
RECURSIVE ProvisionedFrom(_, _)
ProvisionedFrom(k, n) ==
    IF k = n
    THEN {<<OkResp(items @@ cursor)>> : items \in ProvisionedParts,
                                       cursor \in {EmptyDict, "marker" :> ""}}
         \cup {<<ErrResp(e)>> : e \in ErrorTexts}
    ELSE {<<OkResp(items @@ ("marker" :> TokenFor(k + 1)))>> \o rest :
              items \in ProvisionedParts, rest \in ProvisionedFrom(k + 1, n)}
ProvisionedScripts == UNION {ProvisionedFrom(1, n) : n \in 1..MaxPages}

EntityInit ==
    /\ \/ /\ heap \in {[entity |-> o] : o \in GroupObjects}
          /\ backend \in {[EntityBackend EXCEPT !["ListMembersInGroup"] = <<a>>] : a \in MemberAnswers}
       \/ /\ heap \in {[entity |-> o] : o \in UserObjects}
          /\ backend \in {[EntityBackend EXCEPT !["ListGroupsForUser"] = <<a>>] : a \in GroupsForUserAnswers}
       \/ /\ heap \in {[entity |-> o] : o \in AccountObjects}
          /\ backend \in {[EntityBackend EXCEPT !["GetApplicationInstanceForAWSAccount"] = <<i>>,
                                                !["ListAWSAccountProfiles"] = <<l>>] :
                              i \in InstanceAnswers \cup {ErrResp("denied")}, l \in ProfileListAnswers}
       \/ /\ heap \in {[entity |-> o] : o \in PermissionSetObjects}
          /\ backend \in {[EntityBackend EXCEPT !["GetPermissionsPolicy"] = <<a>>,
                                                !["UpdatePermissionSet"] = <<u>>,
                                                !["PutPermissionsPolicy"] = <<u>>] :
                              a \in PolicyAnswers, u \in FinalAnswers}
       \/ /\ heap = [entity |-> Entity("PermissionSet", HeldPermissionSet)]
          /\ backend \in {[EntityBackend EXCEPT !["ListAccountsWithProvisionedPermissionSet"] = s] :
                              s \in ProvisionedScripts}
    /\ posts = <<>>
    /\ gen = NoGen
    /\ yielded = <<>>
    /\ raised = <<>>
    /\ result = NoResult

\* A call made while the entity is held: its requests and outcome, and the
\* entity object as the call leaves it.
Called(op, args, r, self) ==
    /\ posts' = r.posts
    /\ raised' = IF r.exc # NoExc THEN <<[exc |-> r.exc, text |-> r.text]>> ELSE <<>>
    /\ result' = Outcome(op, args, IF r.exc # NoExc THEN Raise(r.exc, r.text) ELSE Return(r.value))
    /\ heap' = [entity |-> self]
    /\ UNCHANGED <<backend, gen, yielded>>

\* Account.instance_id, line 204: the memo is assigned what was resolved.
Memoized(self, i) == IF i.exc # NoExc THEN self ELSE [self EXCEPT !._instance_id = i.value]

ReadField ==
    \E a \in Accessors(heap.entity.cls) :
        Called("field", [accessor |-> a], read_field(<<>>, heap.entity, a), heap.entity)
ReadGroupUsers ==
    /\ heap.entity.cls = "Group"
    /\ Called("users", <<>>, Group_users(<<>>, heap.entity), heap.entity)
ReadUserGroups ==
    /\ heap.entity.cls = "User"
    /\ Called("groups", <<>>, User_groups(<<>>, heap.entity), heap.entity)
ReadInstanceId ==
    /\ heap.entity.cls = "Account"
    /\ Called("instance_id", <<>>, instance_id(<<>>, heap.entity), Memoized(heap.entity, instance_id(<<>>, heap.entity)))
ReadAssociatedProfiles ==
    /\ heap.entity.cls = "Account"
    /\ Called("associated_profiles", <<>>, associated_profiles(<<>>, heap.entity), Memoized(heap.entity, instance_id(<<>>, heap.entity)))
ReadPermissionPolicy ==
    /\ heap.entity.cls = "PermissionSet"
    /\ Called("permission_policy", <<>>, permission_policy(<<>>, heap.entity), heap.entity)
ReadProvisionedAccounts ==
    /\ heap.entity.cls = "PermissionSet"
    /\ Called("provisioned_accounts", <<>>, provisioned_accounts(<<>>, heap.entity), heap.entity)
UpdatePermissionSet ==
    /\ heap.entity.cls = "PermissionSet"
    /\ \E description \in {" ", "", "new"}, relay_state \in {"", "https://n"}, ttl \in {"", "PT2H"} :
          Called("update", [description |-> description, relay_state |-> relay_state, ttl |-> ttl],
                 update(<<>>, heap.entity, description, relay_state, ttl),
                 updated(heap.entity, description, relay_state, ttl))
AssignCustomPolicy ==
    /\ heap.entity.cls = "PermissionSet"
    /\ \E policy_document \in {PyDict(<<>>), PyList(<<>>)} :
          Called("assign_custom_policy_to_permission_set", [policy_document |-> policy_document],
                 assign_custom_policy_to_permission_set(<<>>, heap.entity, policy_document), heap.entity)
\* The facade is used while the entity is held; it builds its own objects.
AssociateWhileHeld ==
    Called("associate_group_to_account", [name |-> "grp", account_name |-> "acc", permission_set_name |-> "admin"],
           associate_group_to_account(<<>>, "grp", "acc", "admin"), heap.entity)

EntityNext ==
    \/ ReadField
    \/ ReadGroupUsers
    \/ ReadUserGroups
    \/ ReadInstanceId
    \/ ReadAssociatedProfiles
    \/ ReadPermissionPolicy
    \/ ReadProvisionedAccounts
    \/ UpdatePermissionSet
    \/ AssignCustomPolicy
    \/ AssociateWhileHeld
SpecEntity == EntityInit /\ [][EntityNext]_vars

\* ---- a caller that reads a whole collection
\* list(generator): the generator is resumed until it ends or raises.
RECURSIVE Drain(_, _, _)
Drain(g, ps, items) ==
    LET Got(r) ==
            IF r.out.kind = "raise" THEN Err(r.posts, r.out.exc, r.out.text)
            ELSE IF r.out.kind = "stop" THEN Ok(r.posts, items)
            ELSE Drain(r.gen, r.posts, items \o r.out.value)
    IN Got(GenNext(g, ps))

\* list(sso.users), list(sso.groups)
list_users(ps) ==
    LET Made(u) == IF u.exc # NoExc THEN u ELSE Drain(u.value, u.posts, <<>>)
    IN Made(users(ps))
list_groups(ps) == Drain(groups, ps, <<>>)

UserItems == {[UserId |-> "u1", UserName |-> "a"], [UserId |-> "u2", UserName |-> "b"]}

CollectionsInit ==
    /\ backend \in
         {[DefaultBackend EXCEPT !["SearchGroups"] = s] : s \in Scripts("Groups", GroupItemsB)}
         \cup {[DefaultBackend EXCEPT !["listAccounts"] = s] : s \in Scripts("Accounts", AccountItemsB)}
         \cup {[DefaultBackend EXCEPT !["ListPermissionSets"] = s] : s \in Scripts("permissionSets", PermissionSetItemsB)}
         \cup {[DefaultBackend EXCEPT !["SearchUsers"] = s, !["GetUserPoolInfo"] = <<d>>] :
                  s \in Scripts("Users", UserItems), d \in DirectoryAnswers}
    /\ Fresh

ListAccounts == Done("accounts", <<>>, accounts(<<>>))
ListUsers == Done("users", <<>>, list_users(<<>>))
ListGroups == Done("groups", <<>>, list_groups(<<>>))
ListPermissionSets == Done("permission_sets", <<>>, permission_sets(<<>>))

CollectionsNext ==
    \/ ListAccounts
    \/ ListUsers
    \/ ListGroups
    \/ ListPermissionSets
SpecCollections == CollectionsInit /\ [][CollectionsNext]_vars

\* ================================================================ claims
\* ---- what the double was asked and what it served, per listing
FetchPosts == SelectSeq(posts, LAMBDA p : p.json.operation = "SearchGroups")
GroupScript == backend["SearchGroups"]

\* The entities of the items of pages 1..k of a listing.
RECURSIVE EntitiesUpTo(_, _, _, _)
EntitiesUpTo(pages, k, cls, field) ==
    IF k = 0 THEN <<>>
    ELSE LET items == Get(pages[k].body, field, <<>>)
         IN EntitiesUpTo(pages, k - 1, cls, field) \o [i \in 1..Len(items) |-> Entity(cls, items[i])]

\* Every page is OK and every page but the last carries a cursor.
Paged(pages) ==
    /\ \A k \in 1..Len(pages) : pages[k].ok
    /\ \A k \in 1..(Len(pages) - 1) : Truthy(Get(pages[k].body, "NextToken", None))
    /\ ~Truthy(Get(pages[Len(pages)].body, "NextToken", None))

\* C1: get_api_payload raises UnsupportedTarget, and posts nothing, for every
\* target outside SUPPORTED_TARGETS; for a target inside it returns an
\* envelope whose operation is that target.
C1_TargetValidated ==
    result.op = "get_api_payload" =>
        /\ posts = <<>>
        /\ IF result.args.target \notin SUPPORTED_TARGETS
           THEN result.kind = "raise" /\ result.exc = "UnsupportedTarget"
           ELSE result.kind = "return" /\ result.value[1].operation = result.args.target

C1_Witness ==
    /\ result.op = "get_api_payload"
    /\ result.args.target = "listAccounts"
    /\ result.kind = "raise"
    /\ raised = <<[exc |-> "UnsupportedTarget", text |-> "listAccounts"]>>

C3_Lazy ==
    \A k \in 2..Len(FetchPosts) :
        Len(yielded) >= Len(EntitiesUpTo([i \in 1..(k - 1) |-> FetchPosts[i].response], k - 1, "Group", "Groups"))

\* The caller stopped after the first of two items of page 1, with a page 2
\* behind it that was never requested.
C3_Witness ==
    /\ gen.state = "closed"
    /\ Len(GroupScript) = 2
    /\ Len(Get(GroupScript[1].body, "Groups", <<>>)) = 2
    /\ Len(yielded) = 1
    /\ Len(FetchPosts) = 1

\* C4: a non-OK response for page k makes the iteration raise SystemError
\* with the response's text, after the items of pages 1..k-1 and none of
\* page k, and it is the last request of the iteration.
C4_FailedPage ==
    \A k \in 1..Len(FetchPosts) :
        ~FetchPosts[k].response.ok =>
            /\ k = Len(FetchPosts)
            /\ raised = <<[exc |-> "SystemError", text |-> FetchPosts[k].response.text]>>
            /\ yielded = EntitiesUpTo(GroupScript, k - 1, "Group", "Groups")
            /\ gen.state = "finished"

C4_Witness ==
    /\ Len(FetchPosts) = 2
    /\ ~FetchPosts[2].response.ok
    /\ Len(yielded) = 2
    /\ raised = <<[exc |-> "SystemError", text |-> "denied"]>>
    /\ result.op = "next" /\ result.kind = "stop"

\* C5: a first response that is OK, without a cursor and with its items
\* empty or absent gives an empty sequence, no exception, and one POST to
\* the list endpoint.
EmptyFirstPage ==
    /\ Len(FetchPosts) >= 1
    /\ FetchPosts[1].response.ok
    /\ "NextToken" \notin DOMAIN FetchPosts[1].response.body
    /\ Get(FetchPosts[1].response.body, "Groups", <<>>) = <<>>

C5_EmptyListing ==
    EmptyFirstPage =>
        /\ gen.state = "finished"
        /\ result.op = "next" /\ result.kind = "stop"
        /\ yielded = <<>>
        /\ raised = <<>>
        /\ Len(posts) = 1
        /\ posts[1].url = api_url \o "/userpool"

C5_Witness ==
    /\ EmptyFirstPage
    /\ "Groups" \notin DOMAIN FetchPosts[1].response.body
    /\ gen.state = "finished"
    /\ yielded = <<>>

\* ---- the account listing and the lookups
AccountScript == backend["listAccounts"]

\* The items the pages 1..k of a script hold under a field, in page order;
\* a page without the field holds none.
RECURSIVE ItemsUpTo(_, _, _)
ItemsUpTo(pages, k, field) ==
    IF k = 0 THEN <<>>
    ELSE ItemsUpTo(pages, k - 1, field) \o Get(pages[k].body, field, <<>>)

\* Every page of a script holds a list under the field.
HoldsLists(pages, field) == \A k \in 1..Len(pages) : field \in DOMAIN pages[k].body

AccountViews(items) == [i \in 1..Len(items) |-> Account(items[i])]

\* C6: over account pages p1..pn, all OK with their Accounts and all but the
\* last with a NextToken, Sso.accounts returns the Account views of the
\* pages' items in page order, from exactly n POSTs to the organizations
\* endpoint, the first without a cursor and request k+1 with the NextToken
\* of response k.
C6_AccountPages ==
    (result.op = "accounts" /\ Paged(AccountScript) /\ HoldsLists(AccountScript, "Accounts")) =>
        /\ result.kind = "return"
        /\ result.value[1] = AccountViews(ItemsUpTo(AccountScript, Len(AccountScript), "Accounts"))
        /\ Len(posts) = Len(AccountScript)
        /\ \A k \in 1..Len(posts) :
              /\ posts[k].url = api_url \o "/organizations"
              /\ posts[k].json.operation = "listAccounts"
              /\ posts[k].response = AccountScript[k]
        /\ posts[1].json.contentString = "{}"
        /\ \A k \in 1..(Len(posts) - 1) :
              posts[k + 1].json.contentString =
                  json_dumps(PyDict(<< <<"NextToken", PyStr(posts[k].response.body["NextToken"])>> >>))

\* Two pages of one account each, ids 1 then 2.
C6_Witness ==
    /\ result.op = "accounts"
    /\ result.kind = "return"
    /\ Len(AccountScript) = 2
    /\ Len(posts) = 2
    /\ Len(result.value[1]) = 2
    /\ Attr(result.value[1][1], "id") = "1"
    /\ Attr(result.value[1][2], "id") = "2"

\* C7: an OK account page without 'Accounts' counts as an empty page:
\* Sso.accounts raises nothing and returns the accounts of the other pages.
C7_AbsentAccounts ==
    (result.op = "accounts" /\ Paged(AccountScript)) =>
        /\ result.kind = "return"
        /\ raised = <<>>
        /\ result.value[1] = AccountViews(ItemsUpTo(AccountScript, Len(AccountScript), "Accounts"))

\* The listing a lookup helper scans: operation, items field, entity class.
LookupOps ==
    {"get_user_by_name", "get_user_by_id", "get_group_by_name", "get_group_by_id",
     "get_account_by_name", "get_account_by_id", "get_permission_set_by_name"}
ListingOf(op) ==
    CASE op \in {"get_user_by_name", "get_user_by_id"} -> [operation |-> "SearchUsers", field |-> "Users", cls |-> "User"]
      [] op \in {"get_group_by_name", "get_group_by_id"} -> [operation |-> "SearchGroups", field |-> "Groups", cls |-> "Group"]
      [] op \in {"get_account_by_name", "get_account_by_id"} -> [operation |-> "listAccounts", field |-> "Accounts", cls |-> "Account"]
      [] op = "get_permission_set_by_name" -> [operation |-> "ListPermissionSets", field |-> "permissionSets", cls |-> "PermissionSet"]

\* The elements of a listing in the order the service returned them.
Served(l) ==
    LET View(items) == [i \in 1..Len(items) |->
                           IF l.cls = "Account" THEN Account(items[i]) ELSE Entity(l.cls, items[i])]
    IN View(ItemsUpTo(backend[l.operation], Len(backend[l.operation]), l.field))

\* The answer of a lookup over served elements: the earliest match or None.
Earliest(list, attr, wanted) ==
    IF \A i \in 1..Len(list) : Attr(list[i], attr) # wanted THEN <<>>
    ELSE <<list[CHOOSE i \in 1..Len(list) :
                   /\ Attr(list[i], attr) = wanted
                   /\ \A j \in 1..(i - 1) : Attr(list[j], attr) # wanted]>>

\* A lookup of one of the helpers `ops` returned the earliest match of its
\* listing, or None when nothing matches, and raised nothing.
LooksUpFirst(ops) ==
    (/\ result.op \in ops
     /\ Paged(backend[ListingOf(result.op).operation])
     /\ HoldsLists(backend[ListingOf(result.op).operation], ListingOf(result.op).field)) =>
        /\ result.kind = "return"
        /\ raised = <<>>
        /\ result.value[1] = Earliest(Served(ListingOf(result.op)), result.args.attr, result.args.wanted)

\* C8: each of the seven lookup helpers returns the first element, in the
\* order the service returned them across all pages, whose name/id equals
\* the argument, and None, without raising, when no element matches.
C8_Lookups == LooksUpFirst(LookupOps)

\* C8, the helpers that do not go through Sso.users: these five do return
\* the earliest match or None.
C8_LookupsBesideUsers == LooksUpFirst(LookupOps \ {"get_user_by_name", "get_user_by_id"})

\* A group lookup that passed a non-matching element of page 1 and returned
\* the element of page 2.
C8_LookupsBesideUsersWitness ==
    /\ result.op = "get_group_by_id"
    /\ result.kind = "return"
    /\ Len(posts) = 2
    /\ Len(Served(ListingOf(result.op))) >= 2
    /\ result.value[1] # <<>>
    /\ result.value[1] = <<Served(ListingOf(result.op))[2]>>

\* ---- the association workflows
\* The operations of the requests of the call, in the order they were made.
Requested == [k \in 1..Len(posts) |-> posts[k].json.operation]
Times(op) == Cardinality({k \in 1..Len(posts) : Requested[k] = op})

Associations == {"associate_group_to_account", "associate_user_to_account"}
Disassociations == {"disassociate_group_from_account", "disassociate_user_from_account"}

\* Every step before the last request of the workflow is answered well: the
\* names resolve, the account has an instance, the profile is provisioned
\* (associate) or listed (disassociate), and the directory answers.
EarlierStepsSucceed ==
    /\ result.args.name \in {"grp", "usr"}
    /\ result.args.account_name = "acc"
    /\ result.args.permission_set_name = "admin"
    /\ "applicationInstance" \in DOMAIN backend["GetApplicationInstanceForAWSAccount"][1].body
    /\ backend["GetUserPoolInfo"][1].ok
    /\ result.op \in Associations =>
          "applicationProfile" \in DOMAIN backend["ProvisionApplicationProfileForAWSAccountInstance"][1].body
    /\ result.op \in Disassociations =>
          "profileList" \in DOMAIN backend["ListAWSAccountProfiles"][1].body

\* C9: with every earlier step succeeding and AssociateProfile answered
\* non-OK, associate_group_to_account and associate_user_to_account return
\* False without raising, after exactly one provisioning request and with
\* the AssociateProfile request as the last one of the call.
C9_FailedAssociation ==
    (/\ result.op \in Associations
     /\ EarlierStepsSucceed
     /\ ~backend["AssociateProfile"][1].ok) =>
        /\ result.kind = "return"
        /\ result.value[1] = FALSE
        /\ raised = <<>>
        /\ Times("ProvisionApplicationProfileForAWSAccountInstance") = 1
        /\ Times("AssociateProfile") = 1
        /\ Requested[Len(posts)] = "AssociateProfile"

\* The steps of a workflow as requests: the listing that resolves the
\* accessor, the profile step and the final request.
AccessorStep(op) ==
    IF op \in {"associate_group_to_account", "disassociate_group_from_account"}
    THEN "SearchGroups" ELSE "SearchUsers"
ProfileStep(op) ==
    IF op \in Associations THEN "ProvisionApplicationProfileForAWSAccountInstance"
    ELSE "ListAWSAccountProfiles"
FinalStep(op) == IF op \in Associations THEN "AssociateProfile" ELSE "DisassociateProfile"

\* C10: in each of the four workflows the accessor is resolved, then the
\* account instance, then the profile is provisioned or looked up, then the
\* directory is resolved, and exactly one AssociateProfile or
\* DisassociateProfile request ends the call.
C10_StepOrder ==
    (result.op \in Associations \cup Disassociations /\ EarlierStepsSucceed) =>
        /\ Len(posts) >= 5
        /\ Requested[Len(posts)] = FinalStep(result.op)
        /\ Times(FinalStep(result.op)) = 1
        /\ \E i1, i2, i3, i4 \in 1..Len(posts) :
              /\ i1 < i2 /\ i2 < i3 /\ i3 < i4 /\ i4 < Len(posts)
              /\ Requested[i1] = AccessorStep(result.op)
              /\ Requested[i2] = "GetApplicationInstanceForAWSAccount"
              /\ Requested[i3] = ProfileStep(result.op)
              /\ Requested[i4] = "GetUserPoolInfo"

\* ---- the entity accessors
\* The requests of the call that asked for provisioned accounts.
ProvisionedPosts ==
    SelectSeq(posts, LAMBDA p : p.json.operation = "ListAccountsWithProvisionedPermissionSet")

\* C11: PermissionSet.provisioned_accounts raises when a response of its
\* ListAccountsWithProvisionedPermissionSet loop is non-OK; it returns
\* neither a default nor a partial list.
C11_ProvisionedFailureRaises ==
    (/\ result.op = "provisioned_accounts"
     /\ \E k \in 1..Len(ProvisionedPosts) : ~ProvisionedPosts[k].response.ok) =>
        result.kind = "raise"

\* The operation and the sub-field of the accessors that issue one request
\* of their own.
SingleRequestAccessors == {"users", "groups", "associated_profiles", "permission_policy"}
OwnRequest(op) ==
    CASE op = "users" -> "ListMembersInGroup"
      [] op = "groups" -> "ListGroupsForUser"
      [] op = "associated_profiles" -> "ListAWSAccountProfiles"
      [] op = "permission_policy" -> "GetPermissionsPolicy"
SubField(op) ==
    CASE op = "users" -> "Members"
      [] op = "groups" -> "Groups"
      [] op = "associated_profiles" -> "profileList"

C13_DirectoryId ==
    result.op = "sso_directory_id" =>
        /\ Len(posts) = 1
        /\ Requested[1] = "GetUserPoolInfo"
        /\ result.kind = "return"
        /\ raised = <<>>
        /\ result.value[1] = IF posts[1].response.ok
                             THEN Get(posts[1].response.body, "DirectoryId", None)
                             ELSE None

\* A read of one of the accessors `names` raised nothing, and gave None or
\* the empty string when the entity's backing mapping is empty.
FieldDefaults(names) ==
    (result.op = "field" /\ result.args.accessor \in names) =>
        /\ result.kind = "return"
        /\ raised = <<>>
        /\ posts = <<>>
        /\ heap.entity.data = EmptyDict => result.value[1] \in {None, ""}

AllAccessors == UNION {Accessors(cls) : cls \in {"Group", "Account", "User", "PermissionSet"}}

\* C14: every field accessor of Group, Account, User and PermissionSet
\* returns a default (None or the empty string) and never raises when the
\* field it reads is absent, the nested User accessors emails, first_name,
\* last_name and display_name without 'UserAttributes' included.
C14_FieldDefaults == FieldDefaults(AllAccessors)

\* C14, the accessors that read 'UserAttributes' with a default or not at
\* all: these do return a default and never raise.
C14_FieldDefaultsBesideNames == FieldDefaults(AllAccessors \ {"emails", "first_name", "last_name"})

\* User.display_name read from a user built from data that is no mapping.
C14_FieldDefaultsBesideNamesWitness ==
    /\ result.op = "field"
    /\ result.args.accessor = "display_name"
    /\ heap.entity.cls = "User"
    /\ heap.entity.data = EmptyDict
    /\ result.kind = "return"
    /\ result.value[1] = None

\* ---- the collections
\* The listing behind a collection: operation, items field, entity class.
CollectionOf(op) ==
    CASE op = "accounts" -> [operation |-> "listAccounts", field |-> "Accounts", cls |-> "Account"]
      [] op = "users" -> [operation |-> "SearchUsers", field |-> "Users", cls |-> "User"]
      [] op = "groups" -> [operation |-> "SearchGroups", field |-> "Groups", cls |-> "Group"]
      [] op = "permission_sets" -> [operation |-> "ListPermissionSets", field |-> "permissionSets", cls |-> "PermissionSet"]

\* A collection among `ops`, read over pages that are OK, hold their items
\* and carry a cursor on all but the last, took one request per page and
\* holds the items of every page.
FollowsCursor(ops) ==
    (/\ result.op \in ops
     /\ Paged(backend[CollectionOf(result.op).operation])
     /\ HoldsLists(backend[CollectionOf(result.op).operation], CollectionOf(result.op).field)) =>
        /\ result.kind = "return"
        /\ Times(CollectionOf(result.op).operation) = Len(backend[CollectionOf(result.op).operation])
        /\ result.value[1] = Served(CollectionOf(result.op))

\* C15: each of accounts, users, groups and permission_sets follows the
\* cursor: a response with a cursor is followed by a further request, and
\* the collection holds the items of every page up to the first one
\* without a cursor.
C15_CollectionsFollowCursor == FollowsCursor({"accounts", "users", "groups", "permission_sets"})

\* C15, the two collections that do follow the cursor.
C15_AccountsAndGroupsFollowCursor == FollowsCursor({"accounts", "groups"})

\* All the groups of two pages were listed.
C15_AccountsAndGroupsFollowCursorWitness ==
    /\ result.op = "groups"
    /\ result.kind = "return"
    /\ Len(backend["SearchGroups"]) = 2
    /\ Times("SearchGroups") = 2
    /\ Len(result.value[1]) = 4

\* C15, permission_sets alone: violated by a first page with a cursor.
C15_PermissionSetsFollowCursor == FollowsCursor({"permission_sets"})

\* ---- the requests
\* C16: the 'operation' of every request body the library posts is a member
\* of SUPPORTED_TARGETS.
C16_OperationsAllowed ==
    \A k \in 1..Len(posts) : posts[k].json.operation \in SUPPORTED_TARGETS

\* C16, the requests built by get_api_payload: every operation but the
\* hand-built 'listAccounts' is on the list.
C16_OperationsAllowedButListAccounts ==
    \A k \in 1..Len(posts) : posts[k].json.operation \in SUPPORTED_TARGETS \cup {"listAccounts"}

EnvelopeKeys == {"contentString", "headers", "method", "operation", "params", "path", "region"}

\* C17: every request body the library posts has exactly the keys
\* contentString, headers, method, operation, params, path and region, the
\* requests for the second and later pages of a paginated fetch included.
C17_EnvelopeKeys ==
    \A k \in 1..Len(posts) : DOMAIN posts[k].json = EnvelopeKeys

\* C17, without the requests of the paginated fetcher that carry a cursor:
\* those have the seven keys and 'NextToken', every other request the seven.
C17_EnvelopeKeysButCursor ==
    \A k \in 1..Len(posts) :
        \/ DOMAIN posts[k].json = EnvelopeKeys
        \/ /\ DOMAIN posts[k].json = EnvelopeKeys \cup {"NextToken"}
           /\ k > 1
           /\ posts[k].json.operation \in {"SearchGroups", "SearchUsers"}
           /\ posts[k].json["NextToken"] = posts[k - 1].response.body["NextToken"]

\* ---- the held entity
\* C18: no operation on the entity or on the facade writes to the entity's
\* backing mapping: its identity field, and every other field, reads the
\* same before and after every call.
C18_IdentityKept ==
    [][/\ Attr(heap'.entity, "id") = Attr(heap.entity, "id")
       /\ heap'.entity.data = heap.entity.data
       /\ heap'.entity.cls = heap.entity.cls]_vars

\* update was called with a new description and the permission set still
\* holds the one it was built with.
C18_Witness ==
    /\ result.op = "update"
    /\ result.args.description = "new"
    /\ result.kind = "return"
    /\ result.value[1] = TRUE
    /\ heap.entity.data = HeldPermissionSet
    /\ Attr(heap.entity, "id") = "ps-1"

C20_EnvelopeIndependent ==
    Holds =>
        /\ ~heap.touched => heap.first = result.value[1]
        /\ heap.second \in {<<>>, result.value}
        /\ heap.touched =>
               /\ heap.first = [result.value[1] EXCEPT !.params = SetItem(@, "mine", LateValue)]
               /\ ~HasKey(heap.params, "mine")

\* The caller wrote to both mappings it passed and to the first of two
\* envelopes it got for them.
C20_Witness ==
    /\ Holds
    /\ PyTruthy(result.args.params)
    /\ HasKey(heap.params, LateKey)
    /\ HasKey(heap.content, LateKey)
    /\ heap.touched
    /\ heap.second = result.value
    /\ heap.first # heap.second[1]

MatchUpTo(l, k, attr, wanted) ==
    LET Among(items) ==
            \E i \in 1..Len(items) :
                Attr(IF l.cls = "Account" THEN Account(items[i]) ELSE Entity(l.cls, items[i]), attr) = wanted
    IN Among(ItemsUpTo(backend[l.operation], k, l.field))

\* A lookup of one of the helpers `ops` whose first match is on page k made
\* exactly k requests for its listing.
StopsAtMatch(ops) ==
    (result.op \in ops /\ Paged(backend[ListingOf(result.op).operation])) =>
        \A k \in 1..Len(backend[ListingOf(result.op).operation]) :
            (/\ MatchUpTo(ListingOf(result.op), k, result.args.attr, result.args.wanted)
             /\ ~MatchUpTo(ListingOf(result.op), k - 1, result.args.attr, result.args.wanted)) =>
                Times(ListingOf(result.op).operation) = k

\* A lookup over accounts requested every page of the listing.
ScansAllAccounts ==
    (/\ result.op \in {"get_account_by_name", "get_account_by_id"}
     /\ Paged(backend["listAccounts"])
     /\ HoldsLists(backend["listAccounts"], "Accounts")) =>
        Times("listAccounts") = Len(backend["listAccounts"])

\* C22: a lookup over users or groups whose first match is on page k issues
\* exactly k list requests and none for a page after k; a lookup over
\* accounts issues one request for every page, wherever the match is.
C22_LookupsStopAtMatch ==
    /\ StopsAtMatch({"get_user_by_name", "get_user_by_id", "get_group_by_name", "get_group_by_id"})
    /\ ScansAllAccounts

\* C22, the lookups over groups and accounts: a group lookup stops at the
\* page of its first match, an account lookup lists every page.
C22_GroupAndAccountLookups ==
    /\ StopsAtMatch({"get_group_by_name", "get_group_by_id"})
    /\ ScansAllAccounts

\* A group lookup that found its element on page 1 of two and requested
\* page 1 alone.
C22_GroupAndAccountLookupsWitness ==
    /\ result.op = "get_group_by_name"
    /\ Paged(backend["SearchGroups"])
    /\ Len(backend["SearchGroups"]) = 2
    /\ MatchUpTo(ListingOf(result.op), 1, "name", result.args.wanted)
    /\ Len(posts) = 1
    /\ result.kind = "return"
    /\ result.value[1] # <<>>

\* An account lookup that found its element on page 1 of two and requested
\* both pages.
C22_AccountLookupWitness ==
    /\ result.op = "get_account_by_id"
    /\ Paged(backend["listAccounts"])
    /\ Len(backend["listAccounts"]) = 2
    /\ MatchUpTo(ListingOf(result.op), 1, "id", result.args.wanted)
    /\ Len(posts) = 2

\* ---- names that do not resolve
\* An element of the listing has the name.
Resolves(operation, field, cls, name) ==
    MatchUpTo([operation |-> operation, field |-> field, cls |-> cls],
              Len(backend[operation]), "name", name)

\* The requests that read and change nothing.
ReadOperations ==
    {"SearchGroups", "SearchUsers", "GetUserPoolInfo", "listAccounts",
     "GetApplicationInstanceForAWSAccount", "ListPermissionSets"}

\* The accessor, the account or the permission set of the call is in no
\* listing.
SomeNameUnresolved ==
    \/ /\ result.op = "associate_group_to_account"
       /\ ~Resolves("SearchGroups", "Groups", "Group", result.args.name)
    \/ /\ result.op = "associate_user_to_account"
       /\ ~Resolves("SearchUsers", "Users", "User", result.args.name)
    \/ ~Resolves("listAccounts", "Accounts", "Account", result.args.account_name)
    \/ ~Resolves("ListPermissionSets", "permissionSets", "PermissionSet", result.args.permission_set_name)

\* C23: when the group or user name, the account name or the permission-set
\* name given to associate_group_to_account or associate_user_to_account
\* does not resolve, the call raises, and it has posted neither
\* ProvisionApplicationProfileForAWSAccountInstance nor AssociateProfile:
\* only read requests were sent.
C23_UnresolvedNameRaises ==
    (result.op \in Associations /\ SomeNameUnresolved) =>
        /\ result.kind = "raise"
        /\ Times("ProvisionApplicationProfileForAWSAccountInstance") = 0
        /\ Times("AssociateProfile") = 0
        /\ \A k \in 1..Len(posts) : Requested[k] \in ReadOperations

\* Group and account resolved, the permission set did not: the call raised
\* at the id of None after the four reads.
C23_Witness ==
    /\ result.op = "associate_group_to_account"
    /\ result.args.name = "grp"
    /\ result.args.account_name = "acc"
    /\ result.args.permission_set_name = "noset"
    /\ result.kind = "raise"
    /\ result.exc = "AttributeError"
    /\ Requested = <<"SearchGroups", "listAccounts", "GetApplicationInstanceForAWSAccount", "ListPermissionSets">>

\* ---- a disassociation without a profile
\* No associated profile of the account has the permission set's name: the
\* listing is non-OK, or holds no profile of that name.
NoProfileOfThatName ==
    \/ ~backend["ListAWSAccountProfiles"][1].ok
    \/ \A i \in 1..Len(Get(backend["ListAWSAccountProfiles"][1].body, "profileList", <<>>)) :
           Get(backend["ListAWSAccountProfiles"][1].body["profileList"][i], "name", None)
               # result.args.permission_set_name

\* The body of a disassociation of the call's accessor with a null
\* profileId.
NullProfileContent ==
    profile_content(IF result.op = "disassociate_group_from_account" THEN "g-1" ELSE "u-1",
                    IF result.op = "disassociate_group_from_account" THEN "GROUP" ELSE "USER",
                    IF result.op = "disassociate_group_from_account"
                    THEN PyDict(<< <<"groupName", PyStr("grp")>> >>)
                    ELSE PyDict(<< <<"userName", PyStr("usr")>>, <<"firstName", PyStr("U")>>,
                                   <<"last_name", PyStr("Sr")>>, <<"windowsUpn", PyStr("usr")>> >>),
                    Get(Get(backend["GetApplicationInstanceForAWSAccount"][1].body, "applicationInstance", EmptyDict), "instanceId", ""),
                    None,
                    IF backend["GetUserPoolInfo"][1].ok
                    THEN Get(backend["GetUserPoolInfo"][1].body, "DirectoryId", None) ELSE None)

\* C24: when the group or user and the account resolve and no associated
\* profile of the account has the permission set's name, or the profile
\* listing is non-OK, disassociate_group_from_account and
\* disassociate_user_from_account still post DisassociateProfile exactly
\* once, with a null profileId in its body, and return that response's ok.
C24_NullProfileDisassociation ==
    (/\ result.op \in Disassociations
     /\ result.args.name \in {"grp", "usr"}
     /\ result.args.account_name = "acc"
     /\ NoProfileOfThatName) =>
        /\ Times("DisassociateProfile") = 1
        /\ Requested[Len(posts)] = "DisassociateProfile"
        /\ posts[Len(posts)].json.contentString = json_dumps(NullProfileContent)
        /\ result.kind = "return"
        /\ result.value[1] = backend["DisassociateProfile"][1].ok

\* C24, what the calls do instead: the group disassociation raises
\* NameError at the directory id, before the profiles are listed, and the
\* user disassociation at the user lookup; DisassociateProfile is posted by
\* neither.
C24_DisassociationStopsEarly ==
    (/\ result.op \in Disassociations
     /\ result.args.name \in {"grp", "usr"}
     /\ result.args.account_name = "acc"
     /\ NoProfileOfThatName) =>
        /\ result.kind = "raise"
        /\ result.exc = "NameError"
        /\ Requested[Len(posts)] = "GetUserPoolInfo"
        /\ Times("ListAWSAccountProfiles") = 0
        /\ Times("DisassociateProfile") = 0

C25_ResolvedTwiceBeforeProvisioning ==
    (/\ result.op = "associate_group_to_account"
     /\ Times("ProvisionApplicationProfileForAWSAccountInstance") = 1) =>
        /\ Times("listAccounts") = 2
        /\ Times("GetApplicationInstanceForAWSAccount") = 2
        /\ Requested[7] = "ProvisionApplicationProfileForAWSAccountInstance"
        /\ posts[3].json.contentString = posts[6].json.contentString

\* The call provisioned the profile of an account that has an instance.
C25_ResolvedTwiceBeforeProvisioningWitness ==
    /\ result.op = "associate_group_to_account"
    /\ Times("ProvisionApplicationProfileForAWSAccountInstance") = 1
    /\ "applicationInstance" \in DOMAIN backend["GetApplicationInstanceForAWSAccount"][1].body
    /\ Requested[3] = "GetApplicationInstanceForAWSAccount"
    /\ Requested[6] = "GetApplicationInstanceForAWSAccount"

\* ---- what update sends and what it keeps
\* The value update sends for a field: the caller's, or the one the entity
\* holds when the caller left the argument at its default.
SentFor(given, default, held) == PyVal(IF given = default THEN held ELSE given)

\* The body of the update of `self` with the arguments of the call.
UpdateContent(self, args) ==
    PyDict(<< <<"permissionSetId", PyVal(Get(self.data, "Id", None))>>,
              <<"description", SentFor(args.description, " ", Get(self.data, "Description", None))>>,
              <<"ttl", SentFor(args.ttl, "", Get(self.data, "ttl", None))>>,
              <<"relayState", SentFor(args.relay_state, "", Get(self.data, "relayState", None))>> >>)

SearchUsersContent ==
    PyDict(<< <<"IdentityStoreId",
                PyVal(IF backend["GetUserPoolInfo"][1].ok
                      THEN Get(backend["GetUserPoolInfo"][1].body, "DirectoryId", None)
                      ELSE None)>>,
              <<"MaxResults", PyInt(25)>> >>)

\* C27: an access to Sso.users posts GetUserPoolInfo exactly once, at the
\* access and before any SearchUsers request; the iteration then posts
\* SearchUsers, also when GetUserPoolInfo was non-OK, and every SearchUsers
\* request carries as IdentityStoreId the DirectoryId of that one answer,
\* null when it was non-OK.
C27_UsersResolveDirectoryOnce ==
    result.op = "users" =>
        /\ Times("GetUserPoolInfo") = 1
        /\ Requested[1] = "GetUserPoolInfo"
        /\ Times("SearchUsers") >= 1
        /\ \A k \in 1..Len(posts) :
               Requested[k] = "SearchUsers" =>
                   posts[k].json.contentString = json_dumps(SearchUsersContent)

\* C27, what the access does instead: GetUserPoolInfo is posted once and
\* the access raises NameError; no generator is made and SearchUsers is
\* never posted, whatever GetUserPoolInfo answered.
C27_UsersStopAtDirectory ==
    result.op = "users" =>
        /\ Requested = <<"GetUserPoolInfo">>
        /\ result.kind = "raise"
        /\ result.exc = "NameError"

====
